---- MODULE Spec2Model ----
(***************************************************************************)
(* Streaming fetchers, subscription registry, concurrency limiter and the  *)
(* debounced profile batcher of formastr (src/src/lib/ndk, src/src/hooks). *)
(*                                                                         *)
(* One streaming fetch is followed through its life: the closure variables *)
(* of the fetcher are the record f, the NDK subscription handle it opened  *)
(* is handle, the signals the subscription has emitted and whose handlers  *)
(* have not run yet are queue, the pending setTimeout callbacks are        *)
(* timers, and obs counts the calls made to the caller's callbacks.        *)
(* All callbacks run on one event loop, so every handler is one step.      *)
(***************************************************************************)
EXTENDS Integers, Sequences, FiniteSets, Bags, TLC

(* ------------------------------ bounds --------------------------------- *)
\* event ids are the tokens 1..NumIds (event ids are non-empty hex strings)
NumIds == 4
\* signals a subscription may have emitted whose handlers have not run yet
MaxQueue == 1
\* signals a subscription emits over its life
MaxEmit == 3
\* end-of-stored-events signals emitted over its life (one per racing source)
MaxEose == 2
\* idle time (no timer pending) ends at MaxIdle
MaxIdle == 500
\* the soft cap handed to fetchFollowersStreaming as limit
FollowersLimit == 2
\* callbacks handed to queueStatsFetch over the life of the limiter
MaxCallbacks == 4
\* items a list accumulator can be handed, and how many it is handed
NumItems == 4
MaxArrivals == 4
\* ids under which handles are registered
NumRegIds == 2
\* frames the call stack holds before a further call throws a RangeError
MaxStack == 4
\* listeners of the visibility handler
NumListeners == 2
\* latest dataUpdatedAt of a cached query
MaxUpdatedAt == 1
\* characters of a search query, and messages the search socket delivers
MaxQueryLen == 3
MaxMessages == 3
\* ndk.connect() attempts, and calls of connectNDK or ensureConnected
MaxAttempts == 3
MaxCalls == 4
\* mounted useNoteStats hooks
NumHooks == 6
\* events a slower racing source delivers again over the life of a fetch
MaxRedeliver == 1

(* ------------------------- program constants --------------------------- *)
\* the cap of the stats seen set, scaled down from 1000; a bound of the model
MAX_SEEN_EVENTS == 2
\* the caps of the hooks' seen sets, scaled down from 1000 (useNotes) and
\* 500 (useReplies); bounds of the model
MAX_SEEN_ITEMS_NOTES == 2
MAX_SEEN_ITEMS == 2
\* the cap of the limiter's pending queue, scaled down from 50; a bound of
\* the model
MAX_PENDING_STATS == 2
MAX_CONCURRENT_STATS == 5
\* the capacity of the stats cache, scaled down from 500 (200 on mobile); a
\* bound of the model
MAX_CACHE_ENTRIES == 5
\* 100 on mobile and 500 elsewhere in QueryProvider; scaled down
MAX_CACHE_QUERIES == 4
\* 5 * 60 * 1000
STATS_CACHE_TTL == 300000
\* the age above which the visibility handler unregisters an entry
ORPHAN_MAX_AGE == 300000
CACHE_COLLECTION_DELAY == 300
PROFILE_BATCH_DELAY == 100
EOSE_DELAY == 1000
RELAY_FETCH_TIMEOUT == 8000
NOTE_EOSE_TIMEOUT == 2000
LIST_EOSE_DELAY == 1500
PROFILE_EOSE_DELAY == 1000
FOLLOWING_EOSE_DELAY == 1000
FOLLOWERS_FIRST_CHECK == 2000
FOLLOWERS_RECHECK == 500
FOLLOWERS_QUIET == 1000

\* the clock is sampled at half the grace delay, and at half the debounce
\* window when a deadline is at most one debounce window away
TickStep == EOSE_DELAY \div 2
FineStep == PROFILE_BATCH_DELAY \div 2

Ids == 1..NumIds
\* the empty string argument of a fetcher is the token 0
EmptyKey == 0
Keys == {EmptyKey, 1}

VARIABLES f, conn, handle, queue, emitted, timers, nextTid, now, obs, active,
          hook, batcher, limiter, statsCache, acc, registry, page,
          queryCache, search, ndk, hooks

\* the state of the fetchers, their data source and the hooks that call them
fetchVars == <<f, conn, handle, queue, emitted, timers, nextTid, now, obs,
               active, hook, batcher>>

vars == <<f, conn, handle, queue, emitted, timers, nextTid, now, obs, active,
          hook, batcher, limiter, statsCache, acc, registry, page,
          queryCache, search, ndk, hooks>>

\* the state outside the fetchers: the limiter, the stats cache, the list
\* accumulator of a hook, the subscription manager and the visibility handler
libVars == <<limiter, statsCache, acc, registry, page, queryCache, search,
             ndk, hooks>>
\* what the calls of the limiter, of the stats cache, of the accumulator and
\* of the subscription manager leave alone
limiterFrame == <<fetchVars, statsCache, acc, registry, page, queryCache,
                  search, ndk, hooks>>
cacheFrame == <<fetchVars, limiter, acc, registry, page, queryCache, search,
                ndk, hooks>>
accFrame == <<fetchVars, limiter, statsCache, registry, page, queryCache,
              search, ndk, hooks>>
registryFrame == <<fetchVars, limiter, statsCache, acc, page, queryCache,
                   search, ndk, hooks>>
pageFrame == <<fetchVars, limiter, statsCache, acc, registry, queryCache,
               search, ndk, hooks>>
queryFrame == <<fetchVars, limiter, statsCache, acc, registry, page, search,
                ndk, hooks>>
searchFrame == <<fetchVars, limiter, statsCache, acc, registry, page,
                 queryCache, ndk, hooks>>
ndkFrame == <<fetchVars, limiter, statsCache, acc, registry, page, queryCache,
              search, hooks>>
\* what the stats hooks leave alone besides the limiter
hooksFrame == <<fetchVars, statsCache, acc, registry, page, queryCache,
                search, ndk>>
\* what the visibility handler leaves alone besides the registry, the stats
\* cache, the limiter and the connection
restVars == <<fetchVars, acc, queryCache, search, hooks>>

\* a searchProfiles call (search.ts): its trimmed query, its locals
\* cancelled, ws, timeoutId and seenPubkeys, the readyState of its socket
\* ("failed": closed after an error, with the close event still to be
\* dispatched), whether the request was sent, the messages delivered, and
\* the calls of onResult and onComplete
NoSearch == [started |-> FALSE, query |-> <<>>, cancelled |-> FALSE,
             ws |-> "null", readyState |-> "none", timeoutId |-> FALSE,
             seenPubkeys |-> {}, sent |-> FALSE, messages |-> 0,
             results |-> 0, complete |-> 0, cancelCalled |-> FALSE]

\* the module state of index.ts: connectionPromise (0 for null, else the
\* number of the ndk.connect() attempt it belongs to) and isShuttingDown;
\* attempts holds the state of every ndk.connect() call made, waits the
\* attempt each connectNDK or ensureConnected call was left waiting on (0
\* for a call that threw); disconnected tells whether disconnectNDK was
\* called since the latest attempt started, everDisconnected whether it was
\* called at all
NoNdk == [connectionPromise |-> 0, isShuttingDown |-> FALSE,
          attempts |-> <<>>, waits |-> <<>>, disconnected |-> FALSE,
          everDisconnected |-> FALSE]

\* the useNoteStats hooks of the page: a bag that holds, for each state a
\* hook can be in, the number of hooks in it (the hooks run the same code
\* and are told apart by nothing else). The state of a hook is its refs
\* startedRef, mountedRef and cancelRef, the promise of its query function
\* ("idle" before the function runs, "pending", "resolved"), whether the
\* query's signal was aborted, and the stats fetch the function started:
\* its cancelled flag and its subscription ("none", "connecting" while
\* ensureConnected is awaited, "live", "stopped")
NoStatsHook == [promise |-> "idle", startedRef |-> FALSE, mountedRef |-> TRUE,
                cancelRef |-> FALSE, aborted |-> FALSE, cancelled |-> FALSE,
                sub |-> "none"]
NoHooks == [hk \in {NoStatsHook} |-> NumHooks]

(* --------------------------- data source -------------------------------- *)
EoseSig == [type |-> "eose", id |-> 0]
EventSig(i) == [type |-> "event", id |-> i]
Signals == {EoseSig} \cup {EventSig(i) : i \in Ids}

\* kind of the event with id i (a stats subscription covers 1, 6, 7, 9735)
StatKinds == <<1, 6, 7, 9735>>
KindOf(i) == StatKinds[((i - 1) % 4) + 1]
\* parseZapAmount of the bolt11 tag of the event with id i, in sats; 0 for
\* an invoice without an amount or an event without the tag
parseZapAmount(i) == (i \div 4) % 2
\* created_at of the event with id i; two events may share a timestamp
CreatedAtOf(i) == (i + 1) \div 2
\* author of the event with id i
Pubkeys == {1, 2}
PubkeyOf(i) == ((i - 1) % 2) + 1
\* whether the event with id i carries an e tag naming the note asked for
isReply(i) == i < NumIds
\* number of tags of the (contact list) event with id i
TagsLenOf(i) == i % 2

(* ------------------------------ timers ---------------------------------- *)
\* setTimeout(cb, delay): a pending timer with a fresh id
setTimeout(ts, tid, kind, delay) ==
    ts \cup {[tid |-> tid, kind |-> kind, at |-> now + delay]}
\* clearTimeout(id): a no-op for an id that is not pending
clearTimeout(ts, tid) == {t \in ts : t.tid # tid}
Due == {t \in timers : t.at <= now}
MinAt == CHOOSE a \in {t.at : t \in timers} : \A t \in timers : a <= t.at

(* --------------------------- fetch closure ------------------------------ *)
NoStats == [replies |-> 0, reposts |-> 0, likes |-> 0, zaps |-> 0,
            zapsAmount |-> 0]
NoFetch ==
    [fn |-> "none", key |-> EmptyKey, cancelled |-> FALSE, sub |-> "null",
     found |-> FALSE, eoseReceived |-> FALSE, completed |-> FALSE,
     seen |-> <<>>, stats |-> NoStats, eoseTimeout |-> 0, timeoutId |-> 0,
     latestCreatedAt |-> 0, foundProfile |-> FALSE,
     latestMap |-> [p \in Pubkeys |-> 0], subId |-> 0,
     latestEvent |-> 0, lastEventTime |-> 0, createdAt |-> 0]
\* the refs and promise-local variables of useNotes / useReplies
NoHook == [seen |-> <<>>, mounted |-> TRUE, aborted |-> FALSE,
           cancelledRef |-> FALSE, resolved |-> FALSE, resolveTimer |-> 0]
\* the refs of the debounced profile batcher of useReplies; lastAdd, burst
\* and issued record the additions and the batched fetches for the claims
NoBatcher == [pending |-> {}, fetched |-> {}, batchTimeout |-> 0,
              lastAdd |-> 0, burst |-> {}, issued |-> <<>>, cancelled |-> {},
              settled |-> {}]
NoObs == [inc |-> 0, complete |-> 0, cancelCalled |-> FALSE,
          incAfterCancel |-> 0, completeAfterCancel |-> 0,
          subscribes |-> 0, empty |-> 0, stats |-> NoStats,
          delivered |-> {}, redelivered |-> 0,
          reported |-> <<>>, placeholder |-> 0]

\* the caller's increment callback and onComplete are called
onIncrement(o) ==
    [o EXCEPT !.inc = @ + 1,
              !.incAfterCancel = IF o.cancelCalled THEN @ + 1 ELSE @]
\* the increment callback is called with an empty list, onFollowing([])
onEmptyIncrement(o) == [onIncrement(o) EXCEPT !.empty = @ + 1]
onComplete(o) ==
    [o EXCEPT !.complete = @ + 1,
              !.completeAfterCancel = IF o.cancelCalled THEN @ + 1 ELSE @]

\* sub?.stop(): stops the handle the closure still refers to
stop(fr, h) == IF fr.sub = "ref" THEN "stopped" ELSE h

\* activeStatsCount and pendingStats of concurrency.ts; callbacks are the
\* tokens 1..MaxCallbacks in the order they are handed to queueStatsFetch.
\* op, ret, invoked, deferred and dropped record the last call, its return
\* value, the callbacks invoked so far, the callbacks that were pushed on the
\* queue and the callbacks shifted off it to make room.
NoLimiter == [activeStatsCount |-> 0, pendingStats |-> <<>>, nextCb |-> 1,
              op |-> "none", ret |-> FALSE, invoked |-> <<>>, deferred |-> {},
              dropped |-> {}]

\* statsCache of stats-cache: the entry of each note id (NoEntry when the
\* Map holds none) and the clock Date.now() reads; op and ret record the
\* last call ("get", "set", "evict" for a set at capacity, "other") and what
\* it returned
NoCachedStats == 0
NoEntry == [stats |-> NoCachedStats, timestamp |-> -1]
CacheKeys == 1..(MAX_CACHE_ENTRIES + 1)
\* the cache is read and written at multiples of the TTL up to twice the
\* TTL, so that entries younger than, as old as and older than the TTL occur
CacheStep == STATS_CACHE_TTL
MaxCacheTime == 2 * STATS_CACHE_TTL
NoStatsCache == [entries |-> [k \in CacheKeys |-> NoEntry], now |-> 0,
                 ret |-> NoCachedStats, op |-> "other"]

\* collectedNotes of useNotes or collectedReplies of useReplies: the hook,
\* the accumulated list and the ids handed to it in arrival order
NoAcc == [hook |-> "none", collected |-> <<>>, arrived |-> <<>>]

\* the SubscriptionManager singleton. active maps an id to its entry (Map of
\* id -> {sub, cleanup, createdAt}); the cleanup of an entry is a closure that
\* returns ("plain"), one that throws ("throws"), or the cleanup closure of
\* fetchNoteStatsStreaming ("stats"), whose own reference to the handle is
\* subRef. sub is the state of the handle last registered under each id and
\* outlives its entry. now is the clock Date.now() reads. op, arg,
\* cleanupCalls and stopCalls record the last call, its id and the number of
\* times it invoked a cleanup and a handle's stop(); prev is the state in
\* which the last register left the handle it replaced; overflow tells
\* whether the last call ran out of stack (a RangeError was thrown).
RegIds == 1..NumRegIds
Cleanups == {"plain", "throws", "stats"}
NoRegEntry == [registered |-> FALSE, cleanup |-> "plain", createdAt |-> 0,
               subRef |-> FALSE]
NoRegistry == [active |-> [i \in RegIds |-> NoRegEntry],
               sub |-> [i \in RegIds |-> "none"],
               paused |-> FALSE, now |-> 0, op |-> "none", arg |-> 0,
               cleanupCalls |-> 0, stopCalls |-> 0,
               prev |-> "none", overflow |-> FALSE]
\* the registry is used at multiples of the orphan age, up to twice the
\* orphan age, so that entries younger than, as old as and older than the
\* cutoff occur
RegStep == ORPHAN_MAX_AGE
MaxRegTime == 2 * ORPHAN_MAX_AGE

\* the module state of visibility.ts before the module is evaluated
\* (loaded): initialized, isVisible, hasEverBeenVisible and the listeners
\* visibilityCallbacks in insertion order, and document.hidden. calls and
\* seen record the listeners the last visibilitychange event called, with
\* their argument, and the state they found. everVisible tells whether the
\* document was visible at any time since the module state was set up, and
\* reported whether a visibilitychange event has found it visible since the
\* handler was initialized.
Listeners == 1..NumListeners
\* the listener 1 throws whenever it is called
ListenerThrows(cb) == cb = 1
NoSeen == [paused |-> FALSE, cached |-> 0, active |-> 0, pending |-> 0,
           old |-> 0]
NoPage == [loaded |-> FALSE, initialized |-> FALSE, hidden |-> FALSE,
           isVisible |-> TRUE, hasEverBeenVisible |-> TRUE,
           callbacks |-> <<>>, calls |-> <<>>, seen |-> NoSeen,
           everVisible |-> FALSE, reported |-> FALSE]

\* the query cache of the QueryClient of QueryProvider: dataUpdatedAt of
\* each query the cache holds (NoQuery for a query it does not hold, 0 for
\* a query without data) and isLowMemoryDevice of memory-pressure; op
\* records the last call
QueryIds == 1..(MAX_CACHE_QUERIES + 1)
NoQuery == -1
UpdateTimes == 0..MaxUpdatedAt
NoQueryCache == [queries |-> [q \in QueryIds |-> NoQuery],
                 isLowMemoryDevice |-> FALSE, op |-> "none"]

Init ==
    /\ f = NoFetch
    /\ conn = "none"
    /\ handle = "none"
    /\ queue = <<>>
    /\ emitted = [n |-> 0, eose |-> 0]
    /\ timers = {}
    /\ nextTid = 1
    /\ now = 0
    /\ obs = NoObs
    /\ active = {}
    /\ hook = NoHook
    /\ batcher = NoBatcher
    /\ limiter = NoLimiter
    /\ statsCache = NoStatsCache
    /\ acc = NoAcc
    /\ registry = NoRegistry
    /\ page = NoPage
    /\ queryCache = NoQueryCache
    /\ search = NoSearch
    /\ ndk = NoNdk
    /\ hooks = NoHooks

(* ------------------------ environment actions --------------------------- *)
\* the live subscription emits an event or an end-of-stored-events signal
SourceEmit(sig) ==
    /\ handle = "live"
    /\ Len(queue) < MaxQueue
    /\ emitted.n < MaxEmit
    /\ sig.type = "eose" => emitted.eose < MaxEose
    /\ queue' = Append(queue, sig)
    /\ emitted' = [n |-> emitted.n + 1,
                   eose |-> emitted.eose + (IF sig.type = "eose" THEN 1 ELSE 0)]
    /\ UNCHANGED <<f, conn, handle, timers, nextTid, now, obs, active, hook, batcher>>
    /\ UNCHANGED libVars

\* a slower racing source (another relay, or the cache read in parallel)
\* emits an event the stats subscription has already delivered
SlowSourceEmit(id) ==
    /\ f.fn = "stats" /\ handle = "live"
    /\ Len(queue) < MaxQueue
    /\ id \in obs.delivered
    /\ obs.redelivered < MaxRedeliver
    /\ queue' = Append(queue, EventSig(id))
    /\ obs' = [obs EXCEPT !.redelivered = @ + 1]
    /\ UNCHANGED <<f, conn, handle, emitted, timers, nextTid, now, active, hook, batcher>>
    /\ UNCHANGED libVars

\* time passes; a due timer fires before the clock moves on
Tick(step) ==
    /\ Due = {}
    /\ timers # {} \/ now + step <= MaxIdle
    /\ step = FineStep => timers # {} /\ MinAt - now <= PROFILE_BATCH_DELAY
    /\ now' = IF timers # {} /\ MinAt <= now + step THEN MinAt ELSE now + step
    /\ UNCHANGED <<f, conn, handle, queue, emitted, timers, nextTid, obs, active,
                   hook, batcher>>
    /\ UNCHANGED libVars

(* ------------------- fetchNoteStreaming (notes.ts) ---------------------- *)
fetchNoteStreaming(noteId) ==
    /\ f.fn = "none"
    /\ IF noteId = EmptyKey
       THEN /\ f' = [f EXCEPT !.fn = "note", !.key = noteId]
            /\ obs' = onComplete(obs)
            /\ conn' = "invalid"
       ELSE /\ f' = [f EXCEPT !.fn = "note", !.key = noteId]
            /\ obs' = obs
            /\ conn' = "pending"
    /\ UNCHANGED <<handle, queue, emitted, timers, nextTid, now, active>>
    /\ UNCHANGED <<hook, batcher>>
    /\ UNCHANGED libVars

\* ensureConnected().then(...): the subscription is opened
note_then ==
    /\ f.fn = "note" /\ conn = "pending"
    /\ conn' = "resolved"
    /\ IF f.cancelled
       THEN UNCHANGED <<f, handle, obs>>
       ELSE /\ f' = [f EXCEPT !.sub = "ref"]
            /\ handle' = "live"
            /\ obs' = [obs EXCEPT !.subscribes = @ + 1]
    /\ UNCHANGED <<queue, emitted, timers, nextTid, now, active>>
    /\ UNCHANGED <<hook, batcher>>
    /\ UNCHANGED libVars

\* ensureConnected() rejects: .catch(() => onComplete())
note_catch ==
    /\ f.fn = "note" /\ conn = "pending"
    /\ conn' = "rejected"
    /\ obs' = onComplete(obs)
    /\ UNCHANGED <<f, handle, queue, emitted, timers, nextTid, now, active>>
    /\ UNCHANGED <<hook, batcher>>
    /\ UNCHANGED libVars

note_onEvent ==
    /\ f.fn = "note" /\ queue # <<>> /\ Head(queue).type = "event"
    /\ queue' = Tail(queue)
    /\ IF ~f.found /\ Head(queue).id = f.key
       THEN /\ f' = [f EXCEPT !.found = TRUE]
            /\ handle' = stop(f, handle)
            /\ obs' = onComplete(onIncrement(obs))
       ELSE UNCHANGED <<f, handle, obs>>
    /\ UNCHANGED <<conn, emitted, timers, nextTid, now, active>>
    /\ UNCHANGED <<hook, batcher>>
    /\ UNCHANGED libVars

note_onEose ==
    /\ f.fn = "note" /\ queue # <<>> /\ Head(queue).type = "eose"
    /\ queue' = Tail(queue)
    /\ IF ~f.eoseReceived
       THEN /\ f' = [f EXCEPT !.eoseReceived = TRUE]
            /\ IF ~f.found
               THEN /\ timers' = setTimeout(timers, nextTid, "note", NOTE_EOSE_TIMEOUT)
                    /\ nextTid' = nextTid + 1
               ELSE UNCHANGED <<timers, nextTid>>
       ELSE UNCHANGED <<f, timers, nextTid>>
    /\ UNCHANGED <<conn, handle, emitted, now, obs, active>>
    /\ UNCHANGED <<hook, batcher>>
    /\ UNCHANGED libVars

\* the callback of the timer started by the end-signal
note_timer ==
    /\ f.fn = "note"
    /\ \E t \in Due :
         /\ t.kind = "note"
         /\ timers' = timers \ {t}
         /\ handle' = stop(f, handle)
         /\ obs' = onComplete(obs)
    /\ UNCHANGED <<f, conn, queue, emitted, nextTid, now, active>>
    /\ UNCHANGED <<hook, batcher>>
    /\ UNCHANGED libVars

note_cancel ==
    /\ f.fn = "note" /\ ~obs.cancelCalled
    /\ obs' = [obs EXCEPT !.cancelCalled = TRUE]
    /\ IF conn = "invalid"
       THEN UNCHANGED <<f, handle>>
       ELSE /\ f' = [f EXCEPT !.cancelled = TRUE]
            /\ handle' = stop(f, handle)
    /\ UNCHANGED <<conn, queue, emitted, timers, nextTid, now, active>>
    /\ UNCHANGED <<hook, batcher>>
    /\ UNCHANGED libVars

NoteNext ==
    \/ \E k \in Keys : fetchNoteStreaming(k)
    \/ note_then
    \/ note_catch
    \/ note_onEvent
    \/ note_onEose
    \/ note_timer
    \/ note_cancel

(* ----------------- fetchRelayListStreaming (relays.ts) ------------------ *)
fetchRelayListStreaming(pubkey) ==
    /\ f.fn = "none"
    /\ IF pubkey = EmptyKey
       THEN /\ f' = [f EXCEPT !.fn = "relay", !.key = pubkey]
            /\ obs' = onComplete(obs)
            /\ conn' = "invalid"
            /\ UNCHANGED <<timers, nextTid>>
       ELSE /\ f' = [f EXCEPT !.fn = "relay", !.key = pubkey, !.timeoutId = nextTid]
            /\ obs' = obs
            /\ conn' = "pending"
            /\ timers' = setTimeout(timers, nextTid, "relay", RELAY_FETCH_TIMEOUT)
            /\ nextTid' = nextTid + 1
    /\ UNCHANGED <<handle, queue, emitted, now, active>>
    /\ UNCHANGED <<hook, batcher>>
    /\ UNCHANGED libVars

\* complete(): guarded by the completed flag
completeUnguarded ==
    /\ f' = [f EXCEPT !.completed = TRUE]
    /\ handle' = stop(f, handle)
    /\ obs' = onComplete(obs)

complete ==
    IF f.completed
    THEN UNCHANGED <<f, handle, obs>>
    ELSE /\ f' = [f EXCEPT !.completed = TRUE]
         /\ handle' = stop(f, handle)
         /\ obs' = onComplete(obs)

\* the absolute timeout set when the fetch starts
relay_timeout ==
    /\ f.fn = "relay"
    /\ \E t \in Due :
         /\ t.kind = "relay"
         /\ timers' = timers \ {t}
    /\ complete
    /\ UNCHANGED <<conn, queue, emitted, nextTid, now, active>>
    /\ UNCHANGED <<hook, batcher>>
    /\ UNCHANGED libVars

\* ensureConnected().then(...): subscribes unless cancelled
relay_then ==
    /\ f.fn = "relay" /\ conn = "pending"
    /\ conn' = "resolved"
    /\ IF f.cancelled
       THEN /\ timers' = clearTimeout(timers, f.timeoutId)
            /\ UNCHANGED <<f, handle, obs>>
       ELSE /\ f' = [f EXCEPT !.sub = "ref"]
            /\ handle' = "live"
            /\ obs' = [obs EXCEPT !.subscribes = @ + 1]
            /\ UNCHANGED timers
    /\ UNCHANGED <<queue, emitted, nextTid, now, active>>
    /\ UNCHANGED <<hook, batcher>>
    /\ UNCHANGED libVars

\* the catch handler of fetchRelayListStreaming without the completed guard
relay_catchUnguarded ==
    /\ f.fn = "relay" /\ conn = "pending"
    /\ conn' = "rejected"
    /\ timers' = clearTimeout(timers, f.timeoutId)
    /\ obs' = IF ~f.cancelled THEN onComplete(obs) ELSE obs
    /\ UNCHANGED <<f, handle, queue, emitted, nextTid, now, active>>
    /\ UNCHANGED <<hook, batcher>>
    /\ UNCHANGED libVars

relay_catch ==
    /\ f.fn = "relay" /\ conn = "pending"
    /\ conn' = "rejected"
    /\ IF ~f.cancelled
       THEN /\ timers' = clearTimeout(timers, f.timeoutId)
            /\ complete
       ELSE UNCHANGED <<f, handle, obs, timers>>
    /\ UNCHANGED <<queue, emitted, nextTid, now, active>>
    /\ UNCHANGED <<hook, batcher>>
    /\ UNCHANGED libVars

relay_onEvent ==
    /\ f.fn = "relay" /\ queue # <<>> /\ Head(queue).type = "event"
    /\ queue' = Tail(queue)
    /\ IF ~f.cancelled /\ ~f.found /\ PubkeyOf(Head(queue).id) = f.key
       THEN /\ f' = [f EXCEPT !.found = TRUE]
            /\ obs' = onIncrement(obs)
       ELSE UNCHANGED <<f, obs>>
    /\ UNCHANGED <<conn, handle, emitted, timers, nextTid, now, active>>
    /\ UNCHANGED <<hook, batcher>>
    /\ UNCHANGED libVars

relay_onEose ==
    /\ f.fn = "relay" /\ queue # <<>> /\ Head(queue).type = "eose"
    /\ queue' = Tail(queue)
    /\ IF f.cancelled
       THEN UNCHANGED <<f, handle, obs, timers>>
       ELSE /\ timers' = clearTimeout(timers, f.timeoutId)
            /\ complete
    /\ UNCHANGED <<conn, emitted, nextTid, now, active>>
    /\ UNCHANGED <<hook, batcher>>
    /\ UNCHANGED libVars

relay_cancel ==
    /\ f.fn = "relay" /\ ~obs.cancelCalled
    /\ obs' = [obs EXCEPT !.cancelCalled = TRUE]
    /\ IF conn = "invalid"
       THEN UNCHANGED <<f, handle, timers>>
       ELSE /\ f' = [f EXCEPT !.cancelled = TRUE, !.sub = "null"]
            /\ timers' = clearTimeout(timers, f.timeoutId)
            /\ handle' = stop(f, handle)
    /\ UNCHANGED <<conn, queue, emitted, nextTid, now, active>>
    /\ UNCHANGED <<hook, batcher>>
    /\ UNCHANGED libVars

RelayNext ==
    \/ \E k \in Keys : fetchRelayListStreaming(k)
    \/ relay_timeout
    \/ relay_then
    \/ relay_catch
    \/ relay_onEvent
    \/ relay_onEose
    \/ relay_cancel

(* ----------------- fetchNoteStatsStreaming (stats.ts) ------------------ *)
\* seen.has(id)
has(seen, id) == \E k \in 1..Len(seen) : seen[k] = id

\* the bounded insertion into a seen set; a JS Set iterates in insertion
\* order, so seen.values().next().value is the oldest-inserted id
addUnbounded(seen, id, cap) == Append(seen, id)

addBounded(seen, id, cap) ==
    IF Len(seen) >= cap THEN Append(Tail(seen), id) ELSE Append(seen, id)

\* the counter an event of this kind increments
countKind(st, kind) ==
    CASE kind = 1 -> [st EXCEPT !.replies = @ + 1]
      [] kind = 6 -> [st EXCEPT !.reposts = @ + 1]
      [] kind = 7 -> [st EXCEPT !.likes = @ + 1]
      [] kind = 9735 -> [st EXCEPT !.zaps = @ + 1]
      [] OTHER -> st

\* the switch without its break statements: a kind falls through to the
\* cases below it
categorizeFallThrough(st, id) ==
    LET k == KindOf(id)
        a == IF k = 1 THEN countKind(st, 1) ELSE st
        b == IF k \in {1, 6} THEN countKind(a, 6) ELSE a
        c == IF k \in {1, 6, 7} THEN countKind(b, 7) ELSE b
    IN countKind(c, 9735)

\* the switch on event.kind of the event handler: the counter of the kind,
\* and for a zap receipt the amount of its invoice
categorize(st, id) ==
    LET counted == countKind(st, KindOf(id))
    IN IF KindOf(id) = 9735 /\ parseZapAmount(id) # 0
       THEN [counted EXCEPT !.zapsAmount = @ + parseZapAmount(id)]
       ELSE counted

\* onStats({ ...stats }): the callback is handed a copy of the counters
onStats(o, st) == [onIncrement(o) EXCEPT !.stats = st]

\* the event handler of the subscription was handed the event id
onDelivered(o, id) == [o EXCEPT !.delivered = @ \cup {id}]
\* onProfile(parseProfileEvent(event, pubkey)) for an event created at t, and
\* onProfile(createEmptyProfile(pubkey))
onProfile(o, t) == [onIncrement(o) EXCEPT !.reported = Append(@, t)]
onEmptyProfile(o) == [onIncrement(o) EXCEPT !.placeholder = @ + 1]

\* subscriptionManager.generateId: ++idCounter
StatsSubId == 1

fetchNoteStatsStreaming(noteId, visible) ==
    /\ f.fn = "none"
    /\ IF noteId = EmptyKey \/ ~visible
       THEN /\ f' = [f EXCEPT !.fn = "stats", !.key = noteId]
            /\ obs' = onComplete(obs)
            /\ conn' = "invalid"
       ELSE /\ f' = [f EXCEPT !.fn = "stats", !.key = noteId, !.subId = StatsSubId]
            /\ obs' = obs
            /\ conn' = "pending"
    /\ UNCHANGED <<handle, queue, emitted, timers, nextTid, now, active>>
    /\ UNCHANGED <<hook, batcher>>
    /\ UNCHANGED libVars

\* cleanup(): stops the handle, drops the seen set and unregisters; the
\* registry's unregister calls cleanup back and removes the entry
stats_cleanup(fr) == [fr EXCEPT !.sub = "null", !.seen = <<>>]

stats_then ==
    /\ f.fn = "stats" /\ conn = "pending"
    /\ conn' = "resolved"
    /\ IF f.cancelled
       THEN UNCHANGED <<f, handle, obs, active>>
       ELSE /\ f' = [f EXCEPT !.sub = "ref", !.createdAt = registry.now]
            /\ handle' = IF registry.paused THEN "stopped" ELSE "live"
            /\ obs' = [obs EXCEPT !.subscribes = @ + 1]
            /\ active' = active \cup {f.subId}
    /\ UNCHANGED <<queue, emitted, timers, nextTid, now>>
    /\ UNCHANGED <<hook, batcher>>
    /\ UNCHANGED libVars

stats_catch ==
    /\ f.fn = "stats" /\ conn = "pending"
    /\ conn' = "rejected"
    /\ obs' = IF ~f.cancelled THEN onComplete(obs) ELSE obs
    /\ UNCHANGED <<f, handle, queue, emitted, timers, nextTid, now, active>>
    /\ UNCHANGED <<hook, batcher>>
    /\ UNCHANGED libVars

stats_onEventUnchecked ==
    /\ f.fn = "stats" /\ queue # <<>> /\ Head(queue).type = "event"
    /\ queue' = Tail(queue)
    /\ IF f.cancelled
       THEN /\ f' = f
            /\ obs' = onDelivered(obs, Head(queue).id)
       ELSE /\ f' = [f EXCEPT
                      !.seen = addBounded(f.seen, Head(queue).id, MAX_SEEN_EVENTS),
                      !.stats = categorize(f.stats, Head(queue).id)]
            /\ obs' = onStats(onDelivered(obs, Head(queue).id), f'.stats)
    /\ UNCHANGED <<conn, handle, emitted, timers, nextTid, now, active>>
    /\ UNCHANGED <<hook, batcher>>
    /\ UNCHANGED libVars

stats_onEvent ==
    /\ f.fn = "stats" /\ queue # <<>> /\ Head(queue).type = "event"
    /\ queue' = Tail(queue)
    /\ IF f.cancelled \/ has(f.seen, Head(queue).id)
       THEN /\ f' = f
            /\ obs' = onDelivered(obs, Head(queue).id)
       ELSE /\ f' = [f EXCEPT
                      !.seen = addBounded(f.seen, Head(queue).id, MAX_SEEN_EVENTS),
                      !.stats = categorize(f.stats, Head(queue).id)]
            /\ obs' = onStats(onDelivered(obs, Head(queue).id), f'.stats)
    /\ UNCHANGED <<conn, handle, emitted, timers, nextTid, now, active>>
    /\ UNCHANGED <<hook, batcher>>
    /\ UNCHANGED libVars

\* every end-signal starts a grace timer; eoseTimeout keeps the last one
stats_onEose ==
    /\ f.fn = "stats" /\ queue # <<>> /\ Head(queue).type = "eose"
    /\ queue' = Tail(queue)
    /\ IF f.cancelled
       THEN UNCHANGED <<f, timers, nextTid>>
       ELSE /\ f' = [f EXCEPT !.eoseTimeout = nextTid]
            /\ timers' = setTimeout(timers, nextTid, "stats", EOSE_DELAY)
            /\ nextTid' = nextTid + 1
    /\ UNCHANGED <<conn, handle, emitted, now, obs, active>>
    /\ UNCHANGED <<hook, batcher>>
    /\ UNCHANGED libVars

stats_timerUnchecked ==
    /\ f.fn = "stats"
    /\ \E t \in Due :
         /\ t.kind = "stats"
         /\ timers' = timers \ {t}
    /\ f' = stats_cleanup(f)
    /\ handle' = stop(f, handle)
    /\ active' = active \ {f.subId}
    /\ obs' = onComplete(obs)
    /\ UNCHANGED <<conn, queue, emitted, nextTid, now>>
    /\ UNCHANGED <<hook, batcher>>
    /\ UNCHANGED libVars

stats_timer ==
    /\ f.fn = "stats"
    /\ \E t \in Due :
         /\ t.kind = "stats"
         /\ timers' = timers \ {t}
    /\ IF f.cancelled
       THEN UNCHANGED <<f, handle, active, obs>>
       ELSE /\ f' = stats_cleanup(f)
            /\ handle' = stop(f, handle)
            /\ active' = active \ {f.subId}
            /\ obs' = onComplete(obs)
    /\ UNCHANGED <<conn, queue, emitted, nextTid, now>>
    /\ UNCHANGED <<hook, batcher>>
    /\ UNCHANGED libVars

stats_cancel ==
    /\ f.fn = "stats" /\ ~obs.cancelCalled
    /\ obs' = [obs EXCEPT !.cancelCalled = TRUE]
    /\ IF conn = "invalid"
       THEN UNCHANGED <<f, handle, timers, active>>
       ELSE /\ f' = [stats_cleanup(f) EXCEPT !.cancelled = TRUE, !.eoseTimeout = 0]
            /\ timers' = clearTimeout(timers, f.eoseTimeout)
            /\ handle' = stop(f, handle)
            /\ active' = active \ {f.subId}
    /\ UNCHANGED <<conn, queue, emitted, nextTid, now>>
    /\ UNCHANGED <<hook, batcher>>
    /\ UNCHANGED libVars

StatsNext ==
    \/ \E k \in Keys, v \in BOOLEAN : fetchNoteStatsStreaming(k, v)
    \/ stats_then
    \/ stats_catch
    \/ stats_onEvent
    \/ stats_onEose
    \/ stats_timer
    \/ stats_cancel

(* ------------------ fetchProfileStreaming (profiles.ts) ----------------- *)
fetchProfileStreaming(pubkey) ==
    /\ f.fn = "none"
    /\ f' = [f EXCEPT !.fn = "profile", !.key = pubkey]
    /\ IF pubkey = EmptyKey
       THEN /\ obs' = onComplete(obs)
            /\ conn' = "invalid"
       ELSE /\ obs' = obs
            /\ conn' = "pending"
    /\ UNCHANGED <<handle, queue, emitted, timers, nextTid, now, active>>
    /\ UNCHANGED <<hook, batcher>>
    /\ UNCHANGED libVars

profile_then ==
    /\ f.fn = "profile" /\ conn = "pending"
    /\ conn' = "resolved"
    /\ IF f.cancelled
       THEN UNCHANGED <<f, handle, obs>>
       ELSE /\ f' = [f EXCEPT !.sub = "ref"]
            /\ handle' = "live"
            /\ obs' = [obs EXCEPT !.subscribes = @ + 1]
    /\ UNCHANGED <<queue, emitted, timers, nextTid, now, active>>
    /\ UNCHANGED <<hook, batcher>>
    /\ UNCHANGED libVars

\* the empty placeholder profile is reported, then onComplete
profile_catch ==
    /\ f.fn = "profile" /\ conn = "pending"
    /\ conn' = "rejected"
    /\ obs' = IF ~f.cancelled THEN onComplete(onEmptyProfile(obs)) ELSE obs
    /\ UNCHANGED <<f, handle, queue, emitted, timers, nextTid, now, active>>
    /\ UNCHANGED <<hook, batcher>>
    /\ UNCHANGED libVars

\* the event handler of fetchProfileStreaming with >= in place of >
profile_onEventNotStrict ==
    /\ f.fn = "profile" /\ queue # <<>> /\ Head(queue).type = "event"
    /\ queue' = Tail(queue)
    /\ IF ~f.cancelled /\ CreatedAtOf(Head(queue).id) >= f.latestCreatedAt
       THEN /\ f' = [f EXCEPT !.latestCreatedAt = CreatedAtOf(Head(queue).id),
                              !.foundProfile = TRUE]
            /\ obs' = onProfile(onDelivered(obs, Head(queue).id),
                                CreatedAtOf(Head(queue).id))
       ELSE /\ f' = f
            /\ obs' = onDelivered(obs, Head(queue).id)
    /\ UNCHANGED <<conn, handle, emitted, timers, nextTid, now, active>>
    /\ UNCHANGED <<hook, batcher>>
    /\ UNCHANGED libVars

profile_onEvent ==
    /\ f.fn = "profile" /\ queue # <<>> /\ Head(queue).type = "event"
    /\ queue' = Tail(queue)
    /\ IF ~f.cancelled /\ CreatedAtOf(Head(queue).id) > f.latestCreatedAt
       THEN /\ f' = [f EXCEPT !.latestCreatedAt = CreatedAtOf(Head(queue).id),
                              !.foundProfile = TRUE]
            /\ obs' = onProfile(onDelivered(obs, Head(queue).id),
                                CreatedAtOf(Head(queue).id))
       ELSE /\ f' = f
            /\ obs' = onDelivered(obs, Head(queue).id)
    /\ UNCHANGED <<conn, handle, emitted, timers, nextTid, now, active>>
    /\ UNCHANGED <<hook, batcher>>
    /\ UNCHANGED libVars

profile_onEose ==
    /\ f.fn = "profile" /\ queue # <<>> /\ Head(queue).type = "eose"
    /\ queue' = Tail(queue)
    /\ IF f.cancelled \/ f.eoseReceived
       THEN UNCHANGED <<f, timers, nextTid>>
       ELSE /\ f' = [f EXCEPT !.eoseReceived = TRUE, !.eoseTimeout = nextTid]
            /\ timers' = setTimeout(timers, nextTid, "profile", PROFILE_EOSE_DELAY)
            /\ nextTid' = nextTid + 1
    /\ UNCHANGED <<conn, handle, emitted, now, obs, active>>
    /\ UNCHANGED <<hook, batcher>>
    /\ UNCHANGED libVars

profile_timer ==
    /\ f.fn = "profile"
    /\ \E t \in Due :
         /\ t.kind = "profile"
         /\ timers' = timers \ {t}
    /\ IF f.cancelled
       THEN UNCHANGED <<f, handle, obs>>
       ELSE /\ f' = [f EXCEPT !.sub = "null"]
            /\ handle' = stop(f, handle)
            /\ obs' = onComplete(IF ~f.foundProfile THEN onEmptyProfile(obs)
                                  ELSE obs)
    /\ UNCHANGED <<conn, queue, emitted, nextTid, now, active>>
    /\ UNCHANGED <<hook, batcher>>
    /\ UNCHANGED libVars

profile_cancel ==
    /\ f.fn = "profile" /\ ~obs.cancelCalled
    /\ obs' = [obs EXCEPT !.cancelCalled = TRUE]
    /\ IF conn = "invalid"
       THEN UNCHANGED <<f, handle, timers>>
       ELSE /\ f' = [f EXCEPT !.cancelled = TRUE, !.eoseTimeout = 0, !.sub = "null"]
            /\ timers' = clearTimeout(timers, f.eoseTimeout)
            /\ handle' = stop(f, handle)
    /\ UNCHANGED <<conn, queue, emitted, nextTid, now, active>>
    /\ UNCHANGED <<hook, batcher>>
    /\ UNCHANGED libVars

ProfileNext ==
    \/ \E k \in Keys : fetchProfileStreaming(k)
    \/ profile_then
    \/ profile_catch
    \/ profile_onEvent
    \/ profile_onEose
    \/ profile_timer
    \/ profile_cancel

(* --------------- fetchProfilesBatchStreaming (profiles.ts) -------------- *)
\* pubkeys.filter(...): the valid keys; [...new Set(...)]: without duplicates
validPubkeys(pubkeys) == {pk \in pubkeys : pk # EmptyKey}
NoLatest == [p \in Pubkeys |-> 0]

fetchProfilesBatchStreaming(pubkeys) ==
    /\ f.fn = "none"
    /\ f' = [f EXCEPT !.fn = "batch", !.key = validPubkeys(pubkeys)]
    /\ IF validPubkeys(pubkeys) = {}
       THEN /\ obs' = onComplete(obs)
            /\ conn' = "invalid"
       ELSE /\ obs' = obs
            /\ conn' = "pending"
    /\ UNCHANGED <<handle, queue, emitted, timers, nextTid, now, active>>
    /\ UNCHANGED <<hook, batcher>>
    /\ UNCHANGED libVars

batch_then ==
    /\ f.fn = "batch" /\ conn = "pending"
    /\ conn' = "resolved"
    /\ IF f.cancelled
       THEN UNCHANGED <<f, handle, obs>>
       ELSE /\ f' = [f EXCEPT !.sub = "ref"]
            /\ handle' = "live"
            /\ obs' = [obs EXCEPT !.subscribes = @ + 1]
    /\ UNCHANGED <<queue, emitted, timers, nextTid, now, active>>
    /\ UNCHANGED <<hook, batcher>>
    /\ UNCHANGED libVars

batch_catch ==
    /\ f.fn = "batch" /\ conn = "pending"
    /\ conn' = "rejected"
    /\ obs' = IF ~f.cancelled THEN onComplete(obs) ELSE obs
    /\ UNCHANGED <<f, handle, queue, emitted, timers, nextTid, now, active>>
    /\ UNCHANGED <<hook, batcher>>
    /\ UNCHANGED libVars

batch_onEvent ==
    /\ f.fn = "batch" /\ queue # <<>> /\ Head(queue).type = "event"
    /\ queue' = Tail(queue)
    /\ LET pk == PubkeyOf(Head(queue).id)
           createdAt == CreatedAtOf(Head(queue).id)
       IN IF ~f.cancelled /\ createdAt > f.latestMap[pk]
          THEN /\ f' = [f EXCEPT !.latestMap[pk] = createdAt]
               /\ obs' = onIncrement(obs)
          ELSE UNCHANGED <<f, obs>>
    /\ UNCHANGED <<conn, handle, emitted, timers, nextTid, now, active>>
    /\ UNCHANGED <<hook, batcher>>
    /\ UNCHANGED libVars

batch_onEose ==
    /\ f.fn = "batch" /\ queue # <<>> /\ Head(queue).type = "eose"
    /\ queue' = Tail(queue)
    /\ IF f.cancelled \/ f.eoseReceived
       THEN UNCHANGED <<f, timers, nextTid>>
       ELSE /\ f' = [f EXCEPT !.eoseReceived = TRUE, !.eoseTimeout = nextTid]
            /\ timers' = setTimeout(timers, nextTid, "batch", PROFILE_EOSE_DELAY)
            /\ nextTid' = nextTid + 1
    /\ UNCHANGED <<conn, handle, emitted, now, obs, active>>
    /\ UNCHANGED <<hook, batcher>>
    /\ UNCHANGED libVars

batch_timer ==
    /\ f.fn = "batch"
    /\ \E t \in Due :
         /\ t.kind = "batch"
         /\ timers' = timers \ {t}
    /\ IF f.cancelled
       THEN UNCHANGED <<f, handle, obs>>
       ELSE /\ f' = [f EXCEPT !.sub = "null", !.latestMap = NoLatest]
            /\ handle' = stop(f, handle)
            /\ obs' = onComplete(obs)
    /\ UNCHANGED <<conn, queue, emitted, nextTid, now, active>>
    /\ UNCHANGED <<hook, batcher>>
    /\ UNCHANGED libVars

batch_cancel ==
    /\ f.fn = "batch" /\ ~obs.cancelCalled
    /\ obs' = [obs EXCEPT !.cancelCalled = TRUE]
    /\ IF conn = "invalid"
       THEN UNCHANGED <<f, handle, timers>>
       ELSE /\ f' = [f EXCEPT !.cancelled = TRUE, !.eoseTimeout = 0, !.sub = "null",
                              !.latestMap = NoLatest]
            /\ timers' = clearTimeout(timers, f.eoseTimeout)
            /\ handle' = stop(f, handle)
    /\ UNCHANGED <<conn, queue, emitted, nextTid, now, active>>
    /\ UNCHANGED <<hook, batcher>>
    /\ UNCHANGED libVars

BatchNext ==
    \/ \E ks \in SUBSET {EmptyKey, 1, 2} : fetchProfilesBatchStreaming(ks)
    \/ batch_then
    \/ batch_catch
    \/ batch_onEvent
    \/ batch_onEose
    \/ batch_timer
    \/ batch_cancel

(* --------------- promise plumbing of useNotes / useReplies -------------- *)
\* doResolve(): resolves the query once, clearing the collection timer
doResolve(h) ==
    IF ~h.resolved THEN [h EXCEPT !.resolved = TRUE, !.resolveTimer = 0] ELSE h
doResolveTimers(ts, h) ==
    IF ~h.resolved THEN clearTimeout(ts, h.resolveTimer) ELSE ts
\* scheduleResolve(): starts the collection timer unless resolved or running
needsResolveTimer(h) == ~h.resolved /\ h.resolveTimer = 0

\* the collection timer of the hook fires: doResolve
hook_resolveTimer ==
    /\ f.fn \in {"notes", "replies"}
    /\ \E t \in Due :
         /\ t.kind = "resolve"
         /\ timers' = doResolveTimers(timers \ {t}, hook)
    /\ hook' = doResolve(hook)
    /\ UNCHANGED <<f, conn, handle, queue, emitted, nextTid, now, obs, active, batcher>>
    /\ UNCHANGED libVars

(* --------------- fetchNotesStreaming (notes.ts) in useNotes ------------- *)
fetchNotesStreaming(pubkey) ==
    /\ f.fn = "none"
    /\ f' = [f EXCEPT !.fn = "notes", !.key = pubkey]
    /\ IF pubkey = EmptyKey
       THEN /\ obs' = onComplete(obs)
            /\ hook' = doResolve(hook)
            /\ conn' = "invalid"
       ELSE /\ obs' = obs
            /\ hook' = hook
            /\ conn' = "pending"
    /\ UNCHANGED <<handle, queue, emitted, timers, nextTid, now, active, batcher>>
    /\ UNCHANGED libVars

notes_then ==
    /\ f.fn = "notes" /\ conn = "pending"
    /\ conn' = "resolved"
    /\ IF f.cancelled
       THEN UNCHANGED <<f, handle, obs>>
       ELSE /\ f' = [f EXCEPT !.sub = "ref"]
            /\ handle' = "live"
            /\ obs' = [obs EXCEPT !.subscribes = @ + 1]
    /\ UNCHANGED <<queue, emitted, timers, nextTid, now, active, hook, batcher>>
    /\ UNCHANGED libVars

notes_catch ==
    /\ f.fn = "notes" /\ conn = "pending"
    /\ conn' = "rejected"
    /\ obs' = onComplete(obs)
    /\ hook' = doResolve(hook)
    /\ timers' = doResolveTimers(timers, hook)
    /\ UNCHANGED <<f, handle, queue, emitted, nextTid, now, active, batcher>>
    /\ UNCHANGED libVars

\* the onNote callback of useNotes: bounded seen set, then scheduleResolve
useNotes_onNote(h, id) ==
    IF h.aborted \/ ~h.mounted \/ has(h.seen, id)
    THEN h
    ELSE [h EXCEPT !.seen = addBounded(h.seen, id, MAX_SEEN_ITEMS_NOTES),
                   !.resolveTimer = IF needsResolveTimer(h) THEN nextTid ELSE @]

notes_onEvent ==
    /\ f.fn = "notes" /\ queue # <<>> /\ Head(queue).type = "event"
    /\ queue' = Tail(queue)
    /\ IF ~has(f.seen, Head(queue).id)
       THEN /\ f' = [f EXCEPT !.seen = Append(f.seen, Head(queue).id)]
            /\ obs' = onIncrement(obs)
            /\ hook' = useNotes_onNote(hook, Head(queue).id)
       ELSE UNCHANGED <<f, obs, hook>>
    /\ IF hook'.resolveTimer # hook.resolveTimer
       THEN /\ timers' = setTimeout(timers, nextTid, "resolve", CACHE_COLLECTION_DELAY)
            /\ nextTid' = nextTid + 1
       ELSE UNCHANGED <<timers, nextTid>>
    /\ UNCHANGED <<conn, handle, emitted, now, active, batcher>>
    /\ UNCHANGED libVars

notes_onEose ==
    /\ f.fn = "notes" /\ queue # <<>> /\ Head(queue).type = "eose"
    /\ queue' = Tail(queue)
    /\ IF ~f.eoseReceived
       THEN /\ f' = [f EXCEPT !.eoseReceived = TRUE]
            /\ timers' = setTimeout(timers, nextTid, "notes", LIST_EOSE_DELAY)
            /\ nextTid' = nextTid + 1
       ELSE UNCHANGED <<f, timers, nextTid>>
    /\ UNCHANGED <<conn, handle, emitted, now, obs, active, hook, batcher>>
    /\ UNCHANGED libVars

\* the grace timer: sub?.stop(); onComplete()
notes_timer ==
    /\ f.fn = "notes"
    /\ \E t \in Due :
         /\ t.kind = "notes"
         /\ timers' = doResolveTimers(timers \ {t}, hook)
    /\ handle' = stop(f, handle)
    /\ obs' = onComplete(obs)
    /\ hook' = doResolve(hook)
    /\ UNCHANGED <<f, conn, queue, emitted, nextTid, now, active, batcher>>
    /\ UNCHANGED libVars

\* cancel() of the fetch: cancelled = true; sub?.stop()
list_cancel(fr) == [fr EXCEPT !.cancelled = TRUE]

\* the abort signal of the query: abortHandler, while it is still attached
useNotes_abort ==
    /\ f.fn = "notes" /\ ~hook.aborted
    /\ IF hook.resolved
       THEN /\ hook' = [hook EXCEPT !.aborted = TRUE]
            /\ UNCHANGED <<f, handle, obs, timers>>
       ELSE /\ hook' = [doResolve(hook) EXCEPT !.aborted = TRUE]
            /\ timers' = doResolveTimers(timers, hook)
            /\ obs' = [obs EXCEPT !.cancelCalled = TRUE]
            /\ IF conn = "invalid"
               THEN UNCHANGED <<f, handle>>
               ELSE /\ f' = list_cancel(f)
                    /\ handle' = stop(f, handle)
    /\ UNCHANGED <<conn, queue, emitted, nextTid, now, active, batcher>>
    /\ UNCHANGED libVars

\* effect cleanup of useNotes: unmount or key change
useNotes_unmount ==
    /\ f.fn = "notes" /\ hook.mounted
    /\ hook' = [hook EXCEPT !.mounted = FALSE, !.seen = <<>>]
    /\ obs' = [obs EXCEPT !.cancelCalled = TRUE]
    /\ IF conn = "invalid"
       THEN UNCHANGED <<f, handle>>
       ELSE /\ f' = list_cancel(f)
            /\ handle' = stop(f, handle)
    /\ UNCHANGED <<conn, queue, emitted, timers, nextTid, now, active, batcher>>
    /\ UNCHANGED libVars

NotesNext ==
    \/ \E k \in Keys : fetchNotesStreaming(k)
    \/ notes_then
    \/ notes_catch
    \/ notes_onEvent
    \/ notes_onEose
    \/ notes_timer
    \/ useNotes_abort
    \/ useNotes_unmount

(* ------------- fetchRepliesStreaming (notes.ts) in useReplies ----------- *)
\* fetchRepliesStreaming without its guard on the note id
fetchRepliesUnvalidated(noteId) ==
    /\ f.fn = "none"
    /\ f' = [f EXCEPT !.fn = "replies", !.key = noteId]
    /\ obs' = obs
    /\ hook' = hook
    /\ conn' = "pending"
    /\ UNCHANGED <<handle, queue, emitted, timers, nextTid, now, active, batcher>>
    /\ UNCHANGED libVars

fetchRepliesStreaming(noteId) ==
    /\ f.fn = "none"
    /\ f' = [f EXCEPT !.fn = "replies", !.key = noteId]
    /\ IF noteId = EmptyKey
       THEN /\ obs' = onComplete(obs)
            /\ hook' = doResolve(hook)
            /\ conn' = "invalid"
       ELSE /\ obs' = obs
            /\ hook' = hook
            /\ conn' = "pending"
    /\ UNCHANGED <<handle, queue, emitted, timers, nextTid, now, active, batcher>>
    /\ UNCHANGED libVars

replies_then ==
    /\ f.fn = "replies" /\ conn = "pending"
    /\ conn' = "resolved"
    /\ IF f.cancelled
       THEN UNCHANGED <<f, handle, obs>>
       ELSE /\ f' = [f EXCEPT !.sub = "ref"]
            /\ handle' = "live"
            /\ obs' = [obs EXCEPT !.subscribes = @ + 1]
    /\ UNCHANGED <<queue, emitted, timers, nextTid, now, active, hook, batcher>>
    /\ UNCHANGED libVars

replies_catch ==
    /\ f.fn = "replies" /\ conn = "pending"
    /\ conn' = "rejected"
    /\ obs' = onComplete(obs)
    /\ hook' = doResolve(hook)
    /\ timers' = doResolveTimers(timers, hook)
    /\ UNCHANGED <<f, handle, queue, emitted, nextTid, now, active, batcher>>
    /\ UNCHANGED libVars

\* whether the onReply callback of useReplies takes the note
takesReply(h, id) == ~h.aborted /\ ~h.cancelledRef /\ ~has(h.seen, id)

\* the onReply callback of useReplies: the bounded seen set
useReplies_onReply(h, id, tid) ==
    IF takesReply(h, id)
    THEN [h EXCEPT !.seen = addBounded(h.seen, id, MAX_SEEN_ITEMS),
                   !.resolveTimer = IF needsResolveTimer(h) THEN tid ELSE @]
    ELSE h

\* lines 358-362: the author is queued for the batched profile fetch and
\* scheduleBatchFetch() restarts the debounce timer
addPending(b, pk, tid) ==
    [b EXCEPT !.pending = @ \cup {pk}, !.batchTimeout = tid,
              !.lastAdd = now, !.burst = @ \cup {pk}]

\* scheduleBatchFetch(): clears the running debounce timer, starts a new one
scheduleBatchFetchNoClear(ts, b, tid) ==
    setTimeout(ts, tid, "debounce", PROFILE_BATCH_DELAY)

scheduleBatchFetch(ts, b, tid) ==
    setTimeout(clearTimeout(ts, b.batchTimeout), tid, "debounce", PROFILE_BATCH_DELAY)

replies_onEvent ==
    /\ f.fn = "replies" /\ queue # <<>> /\ Head(queue).type = "event"
    /\ queue' = Tail(queue)
    /\ LET id == Head(queue).id
           pk == PubkeyOf(id)
           delivered == isReply(id) /\ ~has(f.seen, id)
           taken == delivered /\ takesReply(hook, id)
           queued == taken /\ pk \notin batcher.fetched
           resolveTid == IF queued THEN nextTid + 1 ELSE nextTid
           timed == taken /\ needsResolveTimer(hook)
           ts1 == IF queued THEN scheduleBatchFetch(timers, batcher, nextTid) ELSE timers
           ts2 == IF timed
                  THEN setTimeout(ts1, resolveTid, "resolve", CACHE_COLLECTION_DELAY)
                  ELSE ts1
       IN /\ IF delivered
             THEN /\ f' = [f EXCEPT !.seen = Append(f.seen, id)]
                  /\ obs' = onIncrement(obs)
             ELSE UNCHANGED <<f, obs>>
          /\ hook' = IF delivered THEN useReplies_onReply(hook, id, resolveTid) ELSE hook
          /\ batcher' = IF queued THEN addPending(batcher, pk, nextTid) ELSE batcher
          /\ timers' = ts2
          /\ nextTid' = nextTid + (IF queued THEN 1 ELSE 0) + (IF timed THEN 1 ELSE 0)
    /\ UNCHANGED <<conn, handle, emitted, now, active>>
    /\ UNCHANGED libVars

replies_onEose ==
    /\ f.fn = "replies" /\ queue # <<>> /\ Head(queue).type = "eose"
    /\ queue' = Tail(queue)
    /\ IF ~f.eoseReceived
       THEN /\ f' = [f EXCEPT !.eoseReceived = TRUE]
            /\ timers' = setTimeout(timers, nextTid, "replies", LIST_EOSE_DELAY)
            /\ nextTid' = nextTid + 1
       ELSE UNCHANGED <<f, timers, nextTid>>
    /\ UNCHANGED <<conn, handle, emitted, now, obs, active, hook, batcher>>
    /\ UNCHANGED libVars

replies_timer ==
    /\ f.fn = "replies"
    /\ \E t \in Due :
         /\ t.kind = "replies"
         /\ timers' = doResolveTimers(timers \ {t}, hook)
    /\ handle' = stop(f, handle)
    /\ obs' = onComplete(obs)
    /\ hook' = doResolve(hook)
    /\ UNCHANGED <<f, conn, queue, emitted, nextTid, now, active, batcher>>
    /\ UNCHANGED libVars

\* the debounce timer of scheduleBatchFetch fires: one batched fetch for the
\* drained pending set
issueBatch(b) ==
    IF b.pending = {}
    THEN [b EXCEPT !.burst = {}]
    ELSE [b EXCEPT !.pending = {},
                   !.fetched = (IF Cardinality(b.fetched) > MAX_SEEN_ITEMS
                                THEN {} ELSE b.fetched) \cup b.pending,
                   !.issued = Append(@, [keys |-> b.pending, at |-> now]),
                   !.burst = {}]

scheduleBatchFetch_timer ==
    /\ f.fn = "replies"
    /\ \E t \in Due :
         /\ t.kind = "debounce"
         /\ timers' = timers \ {t}
    /\ batcher' = IF hook.cancelledRef THEN batcher ELSE issueBatch(batcher)
    /\ UNCHANGED <<f, conn, handle, queue, emitted, nextTid, now, obs, active, hook>>
    /\ UNCHANGED libVars

\* a batched profile fetch that was issued and not cancelled completes
profilesBatch_complete ==
    /\ f.fn = "replies"
    /\ \E i \in 1..Len(batcher.issued) :
         /\ i \notin batcher.settled \cup batcher.cancelled
         /\ batcher' = [batcher EXCEPT !.settled = @ \cup {i}]
    /\ UNCHANGED <<f, conn, handle, queue, emitted, timers, nextTid, now, obs, active, hook>>
    /\ UNCHANGED libVars

useReplies_abort ==
    /\ f.fn = "replies" /\ ~hook.aborted
    /\ IF hook.resolved
       THEN /\ hook' = [hook EXCEPT !.aborted = TRUE]
            /\ UNCHANGED <<f, handle, obs, timers>>
       ELSE /\ hook' = [doResolve(hook) EXCEPT !.aborted = TRUE]
            /\ timers' = doResolveTimers(timers, hook)
            /\ obs' = [obs EXCEPT !.cancelCalled = TRUE]
            /\ IF conn = "invalid"
               THEN UNCHANGED <<f, handle>>
               ELSE /\ f' = list_cancel(f)
                    /\ handle' = stop(f, handle)
    /\ UNCHANGED <<conn, queue, emitted, nextTid, now, active, batcher>>
    /\ UNCHANGED libVars

\* effect cleanup of useReplies: the stream and the last batch are cancelled,
\* the debounce timer is cleared, pending and fetched are emptied
useReplies_unmount ==
    /\ f.fn = "replies" /\ ~hook.cancelledRef
    /\ hook' = [hook EXCEPT !.cancelledRef = TRUE]
    /\ obs' = [obs EXCEPT !.cancelCalled = TRUE]
    /\ IF conn = "invalid"
       THEN UNCHANGED <<f, handle>>
       ELSE /\ f' = list_cancel(f)
            /\ handle' = stop(f, handle)
    /\ timers' = clearTimeout(timers, batcher.batchTimeout)
    /\ batcher' = [batcher EXCEPT
                     !.pending = {}, !.fetched = {}, !.batchTimeout = 0, !.burst = {},
                     !.cancelled = IF Len(batcher.issued) > 0
                                   THEN @ \cup {Len(batcher.issued)} ELSE @]
    /\ UNCHANGED <<conn, queue, emitted, nextTid, now, active>>
    /\ UNCHANGED libVars

RepliesNext ==
    \/ \E k \in Keys : fetchRepliesStreaming(k)
    \/ replies_then
    \/ replies_catch
    \/ replies_onEvent
    \/ replies_onEose
    \/ replies_timer
    \/ scheduleBatchFetch_timer
    \/ profilesBatch_complete
    \/ useReplies_abort
    \/ useReplies_unmount

(* ------------------- fetchFollowingStreaming (follows.ts) --------------- *)
fetchFollowingStreaming(pubkey) ==
    /\ f.fn = "none"
    /\ f' = [f EXCEPT !.fn = "following", !.key = pubkey]
    /\ IF pubkey = EmptyKey
       THEN /\ obs' = onComplete(onEmptyIncrement(obs))
            /\ conn' = "invalid"
       ELSE /\ obs' = obs
            /\ conn' = "pending"
    /\ UNCHANGED <<handle, queue, emitted, timers, nextTid, now, active, hook, batcher>>
    /\ UNCHANGED libVars

following_then ==
    /\ f.fn = "following" /\ conn = "pending"
    /\ conn' = "resolved"
    /\ IF f.cancelled
       THEN UNCHANGED <<f, handle, obs>>
       ELSE /\ f' = [f EXCEPT !.sub = "ref"]
            /\ handle' = "live"
            /\ obs' = [obs EXCEPT !.subscribes = @ + 1]
    /\ UNCHANGED <<queue, emitted, timers, nextTid, now, active, hook, batcher>>
    /\ UNCHANGED libVars

following_catch ==
    /\ f.fn = "following" /\ conn = "pending"
    /\ conn' = "rejected"
    /\ obs' = onComplete(onEmptyIncrement(obs))
    /\ UNCHANGED <<f, handle, queue, emitted, timers, nextTid, now, active, hook, batcher>>
    /\ UNCHANGED libVars

\* the event with most tags wins, the newer one on a tie
following_onEvent ==
    /\ f.fn = "following" /\ queue # <<>> /\ Head(queue).type = "event"
    /\ queue' = Tail(queue)
    /\ LET id == Head(queue).id
       IN IF \/ f.latestEvent = 0
             \/ TagsLenOf(id) > TagsLenOf(f.latestEvent)
             \/ /\ TagsLenOf(id) = TagsLenOf(f.latestEvent)
                /\ CreatedAtOf(id) > CreatedAtOf(f.latestEvent)
          THEN /\ f' = [f EXCEPT !.latestEvent = id]
               /\ obs' = onIncrement(obs)
          ELSE UNCHANGED <<f, obs>>
    /\ UNCHANGED <<conn, handle, emitted, timers, nextTid, now, active, hook, batcher>>
    /\ UNCHANGED libVars

following_onEose ==
    /\ f.fn = "following" /\ queue # <<>> /\ Head(queue).type = "eose"
    /\ queue' = Tail(queue)
    /\ IF ~f.eoseReceived
       THEN /\ f' = [f EXCEPT !.eoseReceived = TRUE]
            /\ timers' = setTimeout(timers, nextTid, "following", FOLLOWING_EOSE_DELAY)
            /\ nextTid' = nextTid + 1
       ELSE UNCHANGED <<f, timers, nextTid>>
    /\ UNCHANGED <<conn, handle, emitted, now, obs, active, hook, batcher>>
    /\ UNCHANGED libVars

following_timer ==
    /\ f.fn = "following"
    /\ \E t \in Due :
         /\ t.kind = "following"
         /\ timers' = timers \ {t}
    /\ handle' = stop(f, handle)
    /\ obs' = onComplete(IF f.latestEvent = 0 THEN onEmptyIncrement(obs)
                          ELSE obs)
    /\ UNCHANGED <<f, conn, queue, emitted, nextTid, now, active, hook, batcher>>
    /\ UNCHANGED libVars

following_cancel ==
    /\ f.fn = "following" /\ ~obs.cancelCalled
    /\ obs' = [obs EXCEPT !.cancelCalled = TRUE]
    /\ IF conn = "invalid"
       THEN UNCHANGED <<f, handle>>
       ELSE /\ f' = list_cancel(f)
            /\ handle' = stop(f, handle)
    /\ UNCHANGED <<conn, queue, emitted, timers, nextTid, now, active, hook, batcher>>
    /\ UNCHANGED libVars

FollowingNext ==
    \/ \E k \in Keys : fetchFollowingStreaming(k)
    \/ following_then
    \/ following_catch
    \/ following_onEvent
    \/ following_onEose
    \/ following_timer
    \/ following_cancel

(* ------------------- fetchFollowersStreaming (follows.ts) --------------- *)
fetchFollowersStreaming(pubkey) ==
    /\ f.fn = "none"
    /\ f' = [f EXCEPT !.fn = "followers", !.key = pubkey, !.lastEventTime = now]
    /\ IF pubkey = EmptyKey
       THEN /\ obs' = onComplete(obs)
            /\ conn' = "invalid"
       ELSE /\ obs' = obs
            /\ conn' = "pending"
    /\ UNCHANGED <<handle, queue, emitted, timers, nextTid, now, active, hook, batcher>>
    /\ UNCHANGED libVars

followers_then ==
    /\ f.fn = "followers" /\ conn = "pending"
    /\ conn' = "resolved"
    /\ IF f.cancelled
       THEN UNCHANGED <<f, handle, obs>>
       ELSE /\ f' = [f EXCEPT !.sub = "ref"]
            /\ handle' = "live"
            /\ obs' = [obs EXCEPT !.subscribes = @ + 1]
    /\ UNCHANGED <<queue, emitted, timers, nextTid, now, active, hook, batcher>>
    /\ UNCHANGED libVars

followers_catch ==
    /\ f.fn = "followers" /\ conn = "pending"
    /\ conn' = "rejected"
    /\ obs' = onComplete(obs)
    /\ UNCHANGED <<f, handle, queue, emitted, timers, nextTid, now, active, hook, batcher>>
    /\ UNCHANGED libVars

\* followers are deduplicated by author, up to the soft cap
followers_onEvent ==
    /\ f.fn = "followers" /\ queue # <<>> /\ Head(queue).type = "event"
    /\ queue' = Tail(queue)
    /\ LET pk == PubkeyOf(Head(queue).id)
       IN IF ~has(f.seen, pk) /\ Len(f.seen) < FollowersLimit
          THEN /\ f' = [f EXCEPT !.lastEventTime = now, !.seen = Append(f.seen, pk)]
               /\ obs' = onIncrement(obs)
          ELSE /\ f' = [f EXCEPT !.lastEventTime = now]
               /\ obs' = obs
    /\ UNCHANGED <<conn, handle, emitted, timers, nextTid, now, active, hook, batcher>>
    /\ UNCHANGED libVars

followers_onEose ==
    /\ f.fn = "followers" /\ queue # <<>> /\ Head(queue).type = "eose"
    /\ queue' = Tail(queue)
    /\ IF ~f.eoseReceived
       THEN /\ f' = [f EXCEPT !.eoseReceived = TRUE]
            /\ timers' = setTimeout(timers, nextTid, "followers", FOLLOWERS_FIRST_CHECK)
            /\ nextTid' = nextTid + 1
       ELSE UNCHANGED <<f, timers, nextTid>>
    /\ UNCHANGED <<conn, handle, emitted, now, obs, active, hook, batcher>>
    /\ UNCHANGED libVars

\* checkComplete: waits on while events keep arriving, else completes
followers_checkComplete ==
    /\ f.fn = "followers"
    /\ \E t \in Due :
         /\ t.kind = "followers"
         /\ IF now - f.lastEventTime < FOLLOWERS_QUIET /\ Len(f.seen) < FollowersLimit
            THEN /\ timers' = setTimeout(timers \ {t}, nextTid, "followers", FOLLOWERS_RECHECK)
                 /\ nextTid' = nextTid + 1
                 /\ UNCHANGED <<handle, obs>>
            ELSE /\ timers' = timers \ {t}
                 /\ handle' = stop(f, handle)
                 /\ obs' = onComplete(obs)
                 /\ UNCHANGED nextTid
    /\ UNCHANGED <<f, conn, queue, emitted, now, active, hook, batcher>>
    /\ UNCHANGED libVars

followers_cancel ==
    /\ f.fn = "followers" /\ ~obs.cancelCalled
    /\ obs' = [obs EXCEPT !.cancelCalled = TRUE]
    /\ IF conn = "invalid"
       THEN UNCHANGED <<f, handle>>
       ELSE /\ f' = list_cancel(f)
            /\ handle' = stop(f, handle)
    /\ UNCHANGED <<conn, queue, emitted, timers, nextTid, now, active, hook, batcher>>
    /\ UNCHANGED libVars

FollowersNext ==
    \/ \E k \in Keys : fetchFollowersStreaming(k)
    \/ followers_then
    \/ followers_catch
    \/ followers_onEvent
    \/ followers_onEose
    \/ followers_checkComplete
    \/ followers_cancel

(* ------------------ concurrency limiter (concurrency.ts) ---------------- *)
\* callback(): the limiter does not know what a callback does; one that
\* starts a stats fetch reserves a slot with startStatsFetch()
invoke(l, cb, reserves) ==
    LET ran == [l EXCEPT !.invoked = Append(@, cb)] IN
    IF reserves /\ ran.activeStatsCount < MAX_CONCURRENT_STATS
    THEN [ran EXCEPT !.activeStatsCount = @ + 1]
    ELSE ran

canStartStatsFetch ==
    /\ limiter' = [limiter EXCEPT
                     !.op = "canStartStatsFetch",
                     !.ret = (limiter.activeStatsCount < MAX_CONCURRENT_STATS)]
    /\ UNCHANGED limiterFrame

\* startStatsFetch without its test of the count
startStatsFetchUnchecked ==
    /\ limiter' = [limiter EXCEPT !.op = "startStatsFetch", !.ret = TRUE,
                                  !.activeStatsCount = @ + 1]
    /\ UNCHANGED limiterFrame

startStatsFetch ==
    /\ limiter' = IF limiter.activeStatsCount >= MAX_CONCURRENT_STATS
                  THEN [limiter EXCEPT !.op = "startStatsFetch", !.ret = FALSE]
                  ELSE [limiter EXCEPT !.op = "startStatsFetch", !.ret = TRUE,
                                       !.activeStatsCount = @ + 1]
    /\ UNCHANGED limiterFrame

\* activeStatsCount = Math.max(0, activeStatsCount - 1)
release(l) ==
    [l EXCEPT !.activeStatsCount = IF @ - 1 > 0 THEN @ - 1 ELSE 0,
              !.op = "endStatsFetch"]

\* endStatsFetch taking the newest queued callback instead of the oldest
endStatsFetchNewest ==
    \E reserves \in BOOLEAN :
        LET l == release(limiter) IN
        /\ limiter' =
             IF Len(l.pendingStats) > 0
                /\ l.activeStatsCount < MAX_CONCURRENT_STATS
             THEN invoke([l EXCEPT !.pendingStats =
                                     SubSeq(@, 1, Len(@) - 1)],
                         l.pendingStats[Len(l.pendingStats)], reserves)
             ELSE l
        /\ UNCHANGED limiterFrame

endStatsFetch ==
    \E reserves \in BOOLEAN :
        LET l == release(limiter) IN
        /\ limiter' =
             IF Len(l.pendingStats) > 0
                /\ l.activeStatsCount < MAX_CONCURRENT_STATS
             THEN invoke([l EXCEPT !.pendingStats = Tail(@)],
                         Head(l.pendingStats), reserves)
             ELSE l
        /\ UNCHANGED limiterFrame

\* queueStatsFetch without the shift that makes room in a full queue
queueStatsFetchNoShift ==
    \E reserves \in BOOLEAN :
        /\ limiter.nextCb <= MaxCallbacks
        /\ LET callback == limiter.nextCb
               l == [limiter EXCEPT !.nextCb = @ + 1,
                                    !.op = "queueStatsFetch"]
           IN limiter' =
                IF l.activeStatsCount < MAX_CONCURRENT_STATS
                THEN invoke(l, callback, reserves)
                ELSE [l EXCEPT !.pendingStats = Append(@, callback),
                               !.deferred = @ \cup {callback}]
        /\ UNCHANGED limiterFrame

queueStatsFetch ==
    \E reserves \in BOOLEAN :
        /\ limiter.nextCb <= MaxCallbacks
        /\ LET callback == limiter.nextCb
               l == [limiter EXCEPT !.nextCb = @ + 1,
                                    !.op = "queueStatsFetch"]
               full == Len(l.pendingStats) >= MAX_PENDING_STATS
               kept == IF full THEN Tail(l.pendingStats) ELSE l.pendingStats
           IN limiter' =
                IF l.activeStatsCount < MAX_CONCURRENT_STATS
                THEN invoke(l, callback, reserves)
                ELSE [l EXCEPT !.pendingStats = Append(kept, callback),
                               !.deferred = @ \cup {callback},
                               !.dropped = IF full
                                           THEN @ \cup {Head(l.pendingStats)}
                                           ELSE @]
        /\ UNCHANGED limiterFrame

resetStatsQueueIn(l) ==
    [l EXCEPT !.op = "resetStatsQueue", !.activeStatsCount = 0,
              !.pendingStats = <<>>]

resetStatsQueue ==
    /\ limiter' = resetStatsQueueIn(limiter)
    /\ UNCHANGED limiterFrame

LimiterNext ==
    \/ canStartStatsFetch
    \/ startStatsFetch
    \/ endStatsFetch
    \/ queueStatsFetch
    \/ resetStatsQueue

(* ------------------------ stats cache (notes.ts) ------------------------- *)
\* the stats of a note as computed at a given time
StatsAt(noteId, t) == noteId + t

\* the keys of the Map
cached(entries) == {k \in CacheKeys : entries[k] # NoEntry}

\* Math.floor(MAX_CACHE_ENTRIES * 0.2)
entriesToRemove == (MAX_CACHE_ENTRIES * 2) \div 10

\* the keys whose entry sorts first by timestamp. The sort is stable, so
\* the code breaks a tie between equal timestamps by insertion order; the
\* model keeps no insertion order and allows every order of entries with
\* equal timestamps.
oldestKeys(entries) ==
    {r \in cached(entries) :
        \A q \in cached(entries) :
            entries[r].timestamp <= entries[q].timestamp}

\* entries.sort(by timestamp).slice(0, n).forEach(delete): what the Map can
\* be afterwards
RECURSIVE evictOldest(_, _)
evictOldest(entries, n) ==
    IF n = 0 \/ cached(entries) = {}
    THEN {entries}
    ELSE UNION {evictOldest([entries EXCEPT ![r] = NoEntry], n - 1) :
                  r \in oldestKeys(entries)}

\* getCachedStats that takes an entry as old as the TTL for expired
getCachedStatsStrict(noteId) ==
    LET entry == statsCache.entries[noteId]
        called == [statsCache EXCEPT !.op = "get"]
    IN
    /\ statsCache' =
         IF entry = NoEntry
         THEN [called EXCEPT !.ret = NoCachedStats]
         ELSE IF statsCache.now - entry.timestamp >= STATS_CACHE_TTL
         THEN [called EXCEPT !.ret = NoCachedStats,
                             !.entries[noteId] = NoEntry]
         ELSE [called EXCEPT !.ret = entry.stats]
    /\ UNCHANGED cacheFrame

getCachedStats(noteId) ==
    LET entry == statsCache.entries[noteId]
        called == [statsCache EXCEPT !.op = "get"]
    IN
    /\ statsCache' =
         IF entry = NoEntry
         THEN [called EXCEPT !.ret = NoCachedStats]
         ELSE IF statsCache.now - entry.timestamp > STATS_CACHE_TTL
         THEN [called EXCEPT !.ret = NoCachedStats,
                             !.entries[noteId] = NoEntry]
         ELSE [called EXCEPT !.ret = entry.stats]
    /\ UNCHANGED cacheFrame

\* setCachedStats without the eviction at capacity
setCachedStatsNoEvict(noteId) ==
    /\ statsCache' =
         [statsCache EXCEPT
            !.ret = NoCachedStats, !.op = "set",
            !.entries[noteId] = [stats |-> StatsAt(noteId, statsCache.now),
                                 timestamp |-> statsCache.now]]
    /\ UNCHANGED cacheFrame

setCachedStats(noteId) ==
    LET full == Cardinality(cached(statsCache.entries)) >= MAX_CACHE_ENTRIES
    IN
    /\ \E kept \in IF full
                   THEN evictOldest(statsCache.entries, entriesToRemove)
                   ELSE {statsCache.entries} :
         statsCache' =
           [statsCache EXCEPT
              !.ret = NoCachedStats,
              !.op = IF full THEN "evict" ELSE "set",
              !.entries = [kept EXCEPT ![noteId] =
                             [stats |-> StatsAt(noteId, statsCache.now),
                              timestamp |-> statsCache.now]]]
    /\ UNCHANGED cacheFrame

invalidateStatsCache(noteId) ==
    /\ statsCache' = [statsCache EXCEPT
                        !.ret = NoCachedStats, !.op = "other",
                        !.entries[noteId] = NoEntry]
    /\ UNCHANGED cacheFrame

clearStatsCacheIn(c) ==
    [c EXCEPT !.ret = NoCachedStats, !.op = "other",
              !.entries = [k \in CacheKeys |-> NoEntry]]

clearStatsCache ==
    /\ statsCache' = clearStatsCacheIn(statsCache)
    /\ UNCHANGED cacheFrame

\* Date.now() moves on
CacheTick ==
    /\ statsCache.now < MaxCacheTime
    /\ statsCache' = [statsCache EXCEPT !.now = @ + CacheStep,
                                        !.ret = NoCachedStats,
                                        !.op = "other"]
    /\ UNCHANGED cacheFrame

CacheNext ==
    \/ \E noteId \in CacheKeys : getCachedStats(noteId)
    \/ \E noteId \in CacheKeys : setCachedStats(noteId)
    \/ \E noteId \in CacheKeys : invalidateStatsCache(noteId)
    \/ clearStatsCache
    \/ CacheTick

(* ------------- list accumulators (useNotes.ts, useReplies) -------------- *)
\* the item with a given id; ids 1 and 2 share createdAt 5, ids 3 and 4
\* share createdAt 10
Item(id) == [id |-> id, createdAt |-> 5 * ((id + 1) \div 2)]

\* findIndex(pred): the first position whose item satisfies pred, 0 for -1
findIndex(list, pred(_)) ==
    IF \E i \in 1..Len(list) : pred(list[i])
    THEN CHOOSE i \in 1..Len(list) :
            pred(list[i]) /\ \A j \in 1..(i - 1) : ~pred(list[j])
    ELSE 0

\* splice(index, 0, item), or push(item) when index is -1
spliceAt(list, index, item) ==
    IF index = 0
    THEN Append(list, item)
    ELSE SubSeq(list, 1, index - 1) \o <<item>>
           \o SubSeq(list, index, Len(list))

\* insertSorted that pushes every new note at the end
insertSortedPush(notes, note) ==
    IF \E i \in 1..Len(notes) : notes[i].id = note.id
    THEN notes
    ELSE Append(notes, note)

insertSorted(notes, note) ==
    IF \E i \in 1..Len(notes) : notes[i].id = note.id
    THEN notes
    ELSE spliceAt(notes,
                  findIndex(notes, LAMBDA n : n.createdAt < note.createdAt),
                  note)

insertSortedReply(replies, reply) ==
    IF \E i \in 1..Len(replies) : replies[i].id = reply.id
    THEN replies
    ELSE spliceAt(replies,
                  findIndex(replies,
                            LAMBDA r : r.createdAt > reply.createdAt),
                  reply)

\* onNote of useNotes: collectedNotes becomes insertSorted(collectedNotes, note)
useNotes_collect(id) ==
    /\ acc.hook \in {"none", "useNotes"}
    /\ Len(acc.arrived) < MaxArrivals
    /\ acc' = [hook |-> "useNotes",
               collected |-> insertSorted(acc.collected, Item(id)),
               arrived |-> Append(acc.arrived, id)]
    /\ UNCHANGED accFrame

\* onReply of useReplies
useReplies_collect(id) ==
    /\ acc.hook \in {"none", "useReplies"}
    /\ Len(acc.arrived) < MaxArrivals
    /\ acc' = [hook |-> "useReplies",
               collected |-> insertSortedReply(acc.collected, Item(id)),
               arrived |-> Append(acc.arrived, id)]
    /\ UNCHANGED accFrame

AccNext ==
    \/ \E id \in 1..NumItems : useNotes_collect(id)
    \/ \E id \in 1..NumItems : useReplies_collect(id)

(* ----------------------- subscription manager --------------------------- *)
\* a call begins: the record of the calls made by the previous one is dropped
called(r, name, id) ==
    [r EXCEPT !.op = name, !.arg = id, !.cleanupCalls = 0,
              !.stopCalls = 0, !.prev = "none", !.overflow = FALSE]

\* sub.stop() on the handle registered under id
stopSub(r, id) ==
    [r EXCEPT !.sub[id] = "stopped", !.stopCalls = @ + 1]

\* the body of the cleanup closure of fetchNoteStatsStreaming up to its call
\* of unregister: sub?.stop() and sub = null
stats_cleanupBody(r, id) ==
    IF r.active[id].subRef
    THEN [stopSub(r, id) EXCEPT !.active[id].subRef = FALSE]
    ELSE r

\* unregister(id) running in frame number depth of the call stack. A call
\* that needs a frame beyond MaxStack throws a RangeError, which the
\* enclosing try of unregister catches like any error of cleanup or stop.
RECURSIVE unregisterFrom(_, _, _)
unregisterFrom(r, id, depth) ==
    LET entry == r.active[id]
        deleted(q) == [q EXCEPT !.active[id] = NoRegEntry]
        cleanupCalled(q) == [q EXCEPT !.cleanupCalls = @ + 1]
        thrown(q) == [q EXCEPT !.overflow = TRUE]
    IN  IF ~entry.registered THEN r
        ELSE IF depth >= MaxStack THEN deleted(thrown(r))
        ELSE CASE entry.cleanup = "plain" ->
                    deleted(stopSub(cleanupCalled(r), id))
               [] entry.cleanup = "throws" ->
                    deleted(cleanupCalled(r))
               [] entry.cleanup = "stats" ->
                    LET body == stats_cleanupBody(cleanupCalled(r), id)
                    IN  IF depth + 1 >= MaxStack
                        THEN deleted(thrown(body))
                        ELSE deleted(stopSub(
                                 unregisterFrom(body, id, depth + 2), id))

\* unregister of every id of a set, one after the other
RECURSIVE unregisterEach(_, _, _)
unregisterEach(r, ids, depth) ==
    IF ids = {} THEN r
    ELSE LET id == CHOOSE i \in ids : \A j \in ids : i <= j
         IN  unregisterEach(unregisterFrom(r, id, depth), ids \ {id}, depth)

registered(r) == {i \in RegIds : r.active[i].registered}

\* register that leaves the new handle running in a paused registry
registerLive(r, id, cleanup) ==
    LET old == unregisterFrom(r, id, 2)
    IN  [old EXCEPT
           !.prev = IF r.active[id].registered THEN old.sub[id] ELSE "none",
           !.active[id] = [registered |-> TRUE, cleanup |-> cleanup,
                           createdAt |-> r.now,
                           subRef |-> cleanup = "stats"],
           !.sub[id] = "live"]

registerIn(r, id, cleanup) ==
    LET old == unregisterFrom(r, id, 2)
        set == [old EXCEPT
                  !.prev = IF r.active[id].registered THEN old.sub[id]
                           ELSE "none",
                  !.active[id] = [registered |-> TRUE, cleanup |-> cleanup,
                                  createdAt |-> r.now,
                                  subRef |-> cleanup = "stats"],
                  !.sub[id] = "live"]
    IN  IF set.paused THEN stopSub(set, id) ELSE set

register(id, cleanup) ==
    /\ registry' = registerIn(called(registry, "register", id), id, cleanup)
    /\ UNCHANGED registryFrame

unregister(id) ==
    /\ registry' = unregisterFrom(called(registry, "unregister", id), id, 1)
    /\ UNCHANGED registryFrame

\* the cleanup closure of fetchNoteStatsStreaming called by the fetch itself,
\* from cancel() or from the grace timer, for an entry that is registered
stats_cleanupCalled(id) ==
    /\ registry.active[id].registered
    /\ registry.active[id].cleanup = "stats"
    /\ LET r == called(registry, "cleanup", id)
           body == stats_cleanupBody([r EXCEPT !.cleanupCalls = @ + 1], id)
       IN  registry' = unregisterFrom(body, id, 2)
    /\ UNCHANGED registryFrame

RECURSIVE stopEach(_, _)
stopEach(r, ids) ==
    IF ids = {} THEN r
    ELSE LET id == CHOOSE i \in ids : TRUE
         IN  stopEach(stopSub(r, id), ids \ {id})

pauseAllIn(r) ==
    IF r.paused THEN r
    ELSE stopEach([r EXCEPT !.paused = TRUE], registered(r))

pauseAll ==
    /\ registry' = pauseAllIn(called(registry, "pauseAll", 0))
    /\ UNCHANGED registryFrame

resume ==
    /\ registry' = [called(registry, "resume", 0) EXCEPT !.paused = FALSE]
    /\ UNCHANGED registryFrame

stopAllIn(r) ==
    [unregisterEach(r, registered(r), 2) EXCEPT !.paused = FALSE]

stopAll ==
    /\ registry' = stopAllIn(called(registry, "stopAll", 0))
    /\ UNCHANGED registryFrame

\* cleanupOld with a cutoff that takes in the entries exactly maxAgeMs old
cleanupOldAtCutoff(r, maxAgeMs) ==
    LET cutoff == r.now - maxAgeMs
    IN  unregisterEach(r, {i \in registered(r) :
                              r.active[i].createdAt <= cutoff}, 2)

cleanupOldIn(r, maxAgeMs) ==
    LET cutoff == r.now - maxAgeMs
    IN  unregisterEach(r, {i \in registered(r) :
                              r.active[i].createdAt < cutoff}, 2)

cleanupOld(maxAgeMs) ==
    /\ registry' = cleanupOldIn(called(registry, "cleanupOld", 0), maxAgeMs)
    /\ UNCHANGED registryFrame

\* Date.now() moves on
RegTick ==
    /\ registry.now < MaxRegTime
    /\ registry' = [called(registry, "tick", 0) EXCEPT !.now = @ + RegStep]
    /\ UNCHANGED registryFrame

(* ------------------------- visibility handler --------------------------- *)
\* isPageVisible() without the first-visibility latch
isPageVisibleNoLatch(pg) == pg.isVisible

\* isPageVisible() read in the module state pg
isPageVisible(pg) ==
    IF ~pg.hasEverBeenVisible THEN TRUE ELSE pg.isVisible

\* visibility.ts is evaluated in a document that is hidden or not
loadModule(hidden) ==
    /\ ~page.loaded
    /\ page' = [page EXCEPT !.loaded = TRUE, !.hidden = hidden,
                            !.isVisible = ~hidden,
                            !.hasEverBeenVisible = ~hidden,
                            !.everVisible = ~hidden]
    /\ UNCHANGED pageFrame

\* initVisibilityHandler() in a document that is hidden or not
initVisibilityHandler(hidden) ==
    /\ page.loaded /\ ~page.initialized
    /\ page' = [page EXCEPT !.initialized = TRUE, !.hidden = hidden,
                            !.isVisible = ~hidden,
                            !.everVisible = @ \/ ~hidden]
    /\ UNCHANGED pageFrame

\* cleanupVisibilityHandler() in a document that is hidden or not
cleanupVisibilityHandlerIn(pg, hidden) ==
    [pg EXCEPT !.initialized = FALSE, !.hidden = hidden,
               !.callbacks = <<>>, !.calls = <<>>, !.seen = NoSeen,
               !.hasEverBeenVisible = ~hidden,
               !.everVisible = ~hidden, !.reported = FALSE]

cleanupVisibilityHandler(hidden) ==
    /\ page.initialized
    /\ page' = cleanupVisibilityHandlerIn(page, hidden)
    /\ UNCHANGED pageFrame

\* onVisibilityChange(callback): visibilityCallbacks.add(callback)
onVisibilityChange(cb) ==
    /\ page.loaded
    /\ \A i \in 1..Len(page.callbacks) : page.callbacks[i] # cb
    /\ page' = [page EXCEPT !.callbacks = Append(@, cb)]
    /\ UNCHANGED pageFrame

\* the function onVisibilityChange returned: visibilityCallbacks.delete
unsubscribe(cb) ==
    /\ \E i \in 1..Len(page.callbacks) : page.callbacks[i] = cb
    /\ page' = [page EXCEPT
                  !.callbacks = SelectSeq(@, LAMBDA c : c # cb)]
    /\ UNCHANGED pageFrame

\* what a listener finds when it is called: the paused flag, the number of
\* cached stats, the limiter's slots and queue, and the number of registered
\* entries older than the orphan age
Seen(r, c, l) ==
    [paused |-> r.paused,
     cached |-> Cardinality(cached(c.entries)),
     active |-> l.activeStatsCount,
     pending |-> Len(l.pendingStats),
     old |-> Cardinality({i \in registered(r) :
                 r.active[i].createdAt < r.now - ORPHAN_MAX_AGE})]

\* the loop over visibilityCallbacks that stops at the first listener that
\* throws
notifyUntilThrow(pg, r, c, l) ==
    LET n == Len(pg.callbacks)
        thrower == {i \in 1..n : ListenerThrows(pg.callbacks[i])}
        last == IF thrower = {} THEN n
                ELSE CHOOSE i \in thrower : \A j \in thrower : i <= j
    IN  [pg EXCEPT
           !.calls = [i \in 1..last |->
                        [cb |-> pg.callbacks[i], visible |-> pg.isVisible]],
           !.seen = IF n = 0 THEN NoSeen ELSE Seen(r, c, l)]

\* the loop over visibilityCallbacks: every listener is called with
\* isVisible, in insertion order, what it throws being ignored
notify(pg, r, c, l) ==
    [pg EXCEPT
       !.calls = [i \in 1..Len(pg.callbacks) |->
                    [cb |-> pg.callbacks[i], visible |-> pg.isVisible]],
       !.seen = IF Len(pg.callbacks) = 0 THEN NoSeen ELSE Seen(r, c, l)]

\* the branch of a page that became hidden which leaves the stats cache as
\* it is
hiddenCleanupKeepsCache(r, c, l) ==
    [registry |-> cleanupOldIn(pauseAllIn(r), ORPHAN_MAX_AGE),
     statsCache |-> c,
     limiter |-> resetStatsQueueIn(l)]

\* the branch of a page that became hidden: pauseAll, clearStatsCache,
\* resetStatsQueue, cleanupOld
hiddenCleanup(r, c, l) ==
    [registry |-> cleanupOldIn(pauseAllIn(r), ORPHAN_MAX_AGE),
     statsCache |-> clearStatsCacheIn(c),
     limiter |-> resetStatsQueueIn(l)]

\* the visibilitychange listener runs with document.hidden = hidden
handleVisibilityChange(hidden) ==
    /\ page.initialized
    /\ LET wasVisible == page.isVisible
           isVisible == ~hidden
           pg == [page EXCEPT
                    !.hidden = hidden,
                    !.isVisible = isVisible,
                    !.hasEverBeenVisible = @ \/ isVisible,
                    !.calls = <<>>, !.seen = NoSeen,
                    !.everVisible = @ \/ isVisible,
                    !.reported = @ \/ isVisible]
       IN  IF wasVisible = isVisible
           THEN /\ page' = pg
                /\ UNCHANGED <<registry, statsCache, limiter>>
           ELSE IF isVisible
           THEN /\ registry' = [called(registry, "visible", 0)
                                  EXCEPT !.paused = FALSE]
                /\ page' = notify(pg, registry', statsCache, limiter)
                /\ UNCHANGED <<statsCache, limiter>>
           ELSE LET after == hiddenCleanup(called(registry, "hidden", 0),
                                           statsCache, limiter)
                IN  /\ registry' = after.registry
                    /\ statsCache' = after.statsCache
                    /\ limiter' = after.limiter
                    /\ page' = notify(pg, after.registry, after.statsCache,
                                      after.limiter)
    /\ UNCHANGED <<restVars, ndk>>

\* the pagehide listener
handlePageHide ==
    /\ page.initialized
    /\ registry' = pauseAllIn(called(registry, "pagehide", 0))
    /\ statsCache' = clearStatsCacheIn(statsCache)
    /\ limiter' = resetStatsQueueIn(limiter)
    /\ UNCHANGED <<restVars, ndk, page>>

\* disconnectNDK() in the module state n of index.ts: the shutdown flag is
\* set and reset within the call
disconnectIn(n) ==
    [n EXCEPT !.connectionPromise = 0, !.isShuttingDown = FALSE,
              !.disconnected = TRUE, !.everDisconnected = TRUE]

\* the beforeunload listener
handleBeforeUnload ==
    /\ page.initialized
    /\ registry' = stopAllIn(called(registry, "beforeunload", 0))
    /\ statsCache' = clearStatsCacheIn(statsCache)
    /\ limiter' = resetStatsQueueIn(limiter)
    /\ ndk' = disconnectIn(ndk)
    /\ UNCHANGED <<restVars, page>>

\* the effect cleanup of CacheInitializer: stopAll, resetStatsQueue,
\* clearStatsCache, cleanupVisibilityHandler, disconnectNDK
CacheInitializer_unmount(hidden) ==
    /\ page.initialized
    /\ registry' = stopAllIn(called(registry, "unmount", 0))
    /\ limiter' = resetStatsQueueIn(limiter)
    /\ statsCache' = clearStatsCacheIn(statsCache)
    /\ page' = cleanupVisibilityHandlerIn(page, hidden)
    /\ ndk' = disconnectIn(ndk)
    /\ UNCHANGED restVars

RegistryNext ==
    \/ \E id \in RegIds, c \in Cleanups : register(id, c)
    \/ \E id \in RegIds : unregister(id)
    \/ pauseAll
    \/ resume
    \/ stopAll
    \/ cleanupOld(ORPHAN_MAX_AGE)
    \/ RegTick

\* the registry with the fetches that tear themselves down
ReentryNext ==
    \/ RegistryNext
    \/ \E id \in RegIds : stats_cleanupCalled(id)

VisibilityNext ==
    \/ \E h \in BOOLEAN : loadModule(h)
    \/ \E h \in BOOLEAN : initVisibilityHandler(h)
    \/ \E h \in BOOLEAN : handleVisibilityChange(h)
    \/ handlePageHide
    \/ \E id \in RegIds, c \in Cleanups : register(id, c)
    \/ RegTick

(* ----------------------------- query cache ------------------------------ *)
held(queries) == {q \in QueryIds : queries[q] # NoQuery}

\* the queries a sweep may remove when it removes n of them: the first n of
\* the queries sorted by dataUpdatedAt || 0. The sort is stable, so the code
\* breaks a tie by the order of cache.getAll(); the model keeps no such order
\* and allows every order of queries with equal times.
RECURSIVE removeOldest(_, _)
removeOldest(queries, n) ==
    IF n <= 0 \/ held(queries) = {} THEN {queries}
    ELSE LET oldest == {q \in held(queries) :
                          \A o \in held(queries) : queries[q] <= queries[o]}
         IN  UNION {removeOldest([queries EXCEPT ![q] = NoQuery], n - 1) :
                      q \in oldest}

\* the limit of a sweep that takes the full limit whatever the pressure
limitIgnoringPressure(aggressive, low) == MAX_CACHE_QUERIES

\* the limit of a sweep
limitOf(aggressive, low) ==
    IF aggressive \/ low THEN MAX_CACHE_QUERIES \div 2 ELSE MAX_CACHE_QUERIES

\* cleanup(aggressive) of QueryProvider
cleanup(aggressive, name) ==
    LET queries == queryCache.queries
        length == Cardinality(held(queries))
        limit == limitOf(aggressive, queryCache.isLowMemoryDevice)
    IN  /\ \E kept \in IF length > limit
                       THEN removeOldest(queries, length - limit)
                       ELSE {queries} :
             queryCache' = [queryCache EXCEPT !.queries = kept, !.op = name]
        /\ UNCHANGED queryFrame

\* the interval of QueryProvider fires
periodicSweep == cleanup(FALSE, "periodic")

\* the visibilitychange listener of QueryProvider
handleVisibility(hidden) ==
    IF ~hidden THEN cleanup(FALSE, "visibility")
    ELSE /\ queryCache' = [queryCache EXCEPT !.op = "hidden"]
         /\ UNCHANGED queryFrame

\* the memory pressure listener of QueryProvider
memoryPressureSweep == cleanup(TRUE, "pressure")

\* a query is added to the cache, or the data of a cached query are updated
setQueryData(q, t) ==
    /\ queryCache' = [queryCache EXCEPT !.queries[q] = t, !.op = "set"]
    /\ UNCHANGED queryFrame

\* initMemoryPressure(): isLowMemoryDevice = detectLowMemoryDevice()
initMemoryPressure(low) ==
    /\ queryCache.op = "none"
    /\ queryCache' = [queryCache EXCEPT !.isLowMemoryDevice = low,
                                        !.op = "init"]
    /\ UNCHANGED queryFrame

QueryNext ==
    \/ \E low \in BOOLEAN : initMemoryPressure(low)
    \/ \E q \in QueryIds, t \in UpdateTimes : setQueryData(q, t)
    \/ periodicSweep
    \/ \E h \in BOOLEAN : handleVisibility(h)
    \/ memoryPressureSweep

\* the visibility handler and its listeners, no subscription registered
PageNext ==
    \/ \E h \in BOOLEAN : loadModule(h)
    \/ \E h \in BOOLEAN : initVisibilityHandler(h)
    \/ \E h \in BOOLEAN : handleVisibilityChange(h)
    \/ \E h \in BOOLEAN : cleanupVisibilityHandler(h)
    \/ \E cb \in Listeners : onVisibilityChange(cb)
    \/ \E cb \in Listeners : unsubscribe(cb)

\* the visibility handler with its listeners over the registrations of the
\* subscription manager, the clock standing still
ListenerNext ==
    \/ \E h \in BOOLEAN : loadModule(h)
    \/ \E h \in BOOLEAN : initVisibilityHandler(h)
    \/ \E h \in BOOLEAN : handleVisibilityChange(h)
    \/ handlePageHide
    \/ \E cb \in Listeners : onVisibilityChange(cb)
    \/ \E id \in RegIds : register(id, "plain")

\* the work the visibility handler undoes when the page becomes hidden or
\* is torn down, begun while isPageVisible() holds as in
\* fetchNoteStatsStreaming: stats are cached, slots of the limiter are taken
\* and, once all are taken, callbacks are queued
StatsWork ==
    /\ isPageVisible(page)
    /\ \/ setCachedStats(1)
       \/ startStatsFetch
       \/ limiter.activeStatsCount >= MAX_CONCURRENT_STATS /\ queueStatsFetch
    /\ UNCHANGED <<registry, page>>

\* a page that becomes hidden and visible while a handle is registered,
\* stats cached and the limiter in use, with one listener
HiddenNext ==
    \/ \E h \in BOOLEAN : loadModule(h)
    \/ \E h \in BOOLEAN : initVisibilityHandler(h)
    \/ \E h \in BOOLEAN : handleVisibilityChange(h)
    \/ onVisibilityChange(NumListeners)
    \/ isPageVisible(page) /\ register(1, "plain")
    \/ RegTick
    \/ StatsWork

\* the page is unloaded, or CacheInitializer unmounted, while handles are
\* registered, stats cached and the limiter in use
TeardownNext ==
    \/ \E h \in BOOLEAN : loadModule(h)
    \/ \E h \in BOOLEAN : initVisibilityHandler(h)
    \/ handleBeforeUnload
    \/ \E h \in BOOLEAN : CacheInitializer_unmount(h)
    \/ \E id \in RegIds, c \in Cleanups : register(id, c)
    \/ StatsWork

(* ------------------------ profile search (search.ts) -------------------- *)
\* query strings: sequences of blanks (0) and other characters (1)
Queries == UNION {[1..n -> {0, 1}] : n \in 0..MaxQueryLen}

\* String.prototype.trim
RECURSIVE trimStart(_)
trimStart(q) ==
    IF q # <<>> /\ Head(q) = 0 THEN trimStart(Tail(q)) ELSE q
RECURSIVE trimEnd(_)
trimEnd(q) ==
    IF q # <<>> /\ q[Len(q)] = 0
    THEN trimEnd(SubSeq(q, 1, Len(q) - 1)) ELSE q
trim(q) == trimEnd(trimStart(q))

\* cleanup(): the timer is cleared, the socket is closed and ws is dropped;
\* close() of a socket that is closing or closed does nothing
search_cleanup(sr) ==
    [sr EXCEPT !.timeoutId = FALSE,
               !.ws = "null",
               !.readyState = IF sr.ws = "ref" /\ @ \in {"connecting", "open"}
                              THEN "closing" ELSE @]

search_onComplete(sr) == [sr EXCEPT !.complete = @ + 1]

\* what the error, close and timeout handlers do when not cancelled
search_settle(sr) == search_onComplete(search_cleanup(sr))

\* searchProfiles(query, ...); the WebSocket constructor throws or not
searchProfiles(query, throws) ==
    /\ ~search.started
    /\ LET trimmedQuery == trim(query)
           sr == [search EXCEPT !.started = TRUE, !.query = trimmedQuery]
       IN  search' =
             IF Len(trimmedQuery) < 2 \/ throws
             THEN search_onComplete(sr)
             ELSE [sr EXCEPT !.ws = "ref", !.readyState = "connecting",
                             !.timeoutId = TRUE]
    /\ UNCHANGED searchFrame

\* ws.onopen
search_onopen ==
    /\ search.readyState = "connecting"
    /\ search' = [search EXCEPT
                    !.readyState = "open",
                    !.sent = ~search.cancelled /\ search.ws = "ref"]
    /\ UNCHANGED searchFrame

\* ws.onmessage for an EVENT of kind 0 of the search's subscription; a
\* message is dispatched only while the socket is open
search_onEvent(pubkey) ==
    /\ search.readyState = "open" /\ search.sent
    /\ search.messages < MaxMessages
    /\ search' =
         IF search.cancelled \/ pubkey \in search.seenPubkeys
         THEN [search EXCEPT !.messages = @ + 1]
         ELSE [search EXCEPT !.messages = @ + 1,
                             !.seenPubkeys = @ \cup {pubkey},
                             !.results = @ + 1]
    /\ UNCHANGED searchFrame

\* ws.onmessage for the EOSE of the search's subscription
search_onEose ==
    /\ search.readyState = "open" /\ search.sent
    /\ search.messages < MaxMessages
    /\ search' =
         IF search.cancelled
         THEN [search EXCEPT !.messages = @ + 1]
         ELSE search_settle([search EXCEPT !.messages = @ + 1])
    /\ UNCHANGED searchFrame

\* the connection fails: the socket is closed and the error event is
\* dispatched (ws.onerror); its close event follows
search_onerror ==
    /\ search.readyState \in {"connecting", "open", "closing"}
    /\ LET sr == [search EXCEPT !.readyState = "failed"]
       IN  search' = IF sr.cancelled THEN sr ELSE search_settle(sr)
    /\ UNCHANGED searchFrame

\* the close event (ws.onclose): after close(), after an error, or when the
\* server closes the connection
search_onclose ==
    /\ search.readyState \in {"open", "closing", "failed"}
    /\ LET sr == [search EXCEPT !.readyState = "closed"]
       IN  search' = IF sr.cancelled THEN sr ELSE search_onComplete(sr)
    /\ UNCHANGED searchFrame

\* the 5 second timer fires
search_timeout ==
    /\ search.timeoutId
    /\ search' = IF search.cancelled
                 THEN [search EXCEPT !.timeoutId = FALSE]
                 ELSE search_settle(search)
    /\ UNCHANGED searchFrame

\* the cancel function searchProfiles returned
search_cancel ==
    /\ search.started /\ ~search.cancelCalled
    /\ search' =
         IF Len(search.query) < 2 \/ search.readyState = "none"
         THEN [search EXCEPT !.cancelCalled = TRUE]
         ELSE [search_cleanup(search) EXCEPT !.cancelled = TRUE,
                                             !.cancelCalled = TRUE]
    /\ UNCHANGED searchFrame

SearchNext ==
    \/ \E q \in Queries, t \in BOOLEAN : searchProfiles(q, t)
    \/ search_onopen
    \/ \E pk \in Pubkeys : search_onEvent(pk)
    \/ search_onEose
    \/ search_onerror
    \/ search_onclose
    \/ search_timeout
    \/ search_cancel

(* ------------------------ useNoteStats (useNoteStats.ts) ---------------- *)
\* startStatsFetch() and endStatsFetch() in the limiter state l; a queued
\* callback that endStatsFetch runs reserves nothing
startStatsFetchIn(l) ==
    IF l.activeStatsCount >= MAX_CONCURRENT_STATS
    THEN [l EXCEPT !.op = "startStatsFetch", !.ret = FALSE]
    ELSE [l EXCEPT !.op = "startStatsFetch", !.ret = TRUE,
                   !.activeStatsCount = @ + 1]

endStatsFetchIn(l) ==
    LET r == release(l)
    IN  IF Len(r.pendingStats) > 0
           /\ r.activeStatsCount < MAX_CONCURRENT_STATS
        THEN invoke([r EXCEPT !.pendingStats = Tail(@)],
                    Head(r.pendingStats), FALSE)
        ELSE r

\* a hook in state hk takes a step that leaves it in state to and the
\* limiter in state l; the calls a hook makes are not recorded in op and ret
hookStep(hk, to, l) ==
    /\ hooks' = (hooks (-) SetToBag({hk})) (+) SetToBag({to})
    /\ limiter' = [l EXCEPT !.op = "hook", !.ret = FALSE]
    /\ UNCHANGED hooksFrame

\* the slot of the hook is given back: if (startedRef.current) endStatsFetch()
endIfStarted(hk, l) == IF hk.startedRef THEN endStatsFetchIn(l) ELSE l

\* doResolve(): the promise is resolved once, after cleanup(); from is the
\* state the hook was in before the handler ran
hook_doResolve(from, hk, l) ==
    IF hk.promise = "pending"
    THEN hookStep(from, [hk EXCEPT !.promise = "resolved",
                                   !.startedRef = FALSE],
                  endIfStarted(hk, l))
    ELSE hookStep(from, hk, l)

\* the cancel function of fetchNoteStatsStreaming: cancelled = true and
\* cleanup(), which stops the subscription
fetch_cancel(hk) ==
    [hk EXCEPT !.cancelled = TRUE,
               !.sub = IF @ = "live" THEN "stopped" ELSE @]

\* the query function of a hook, isPageVisible() returning visible
useNoteStats_queryFn(hk, visible) ==
    /\ hk.promise = "idle" /\ hk.mountedRef
    /\ IF ~visible \/ limiter.activeStatsCount >= MAX_CONCURRENT_STATS
       THEN hookStep(hk, [hk EXCEPT !.promise = "resolved"], limiter)
       ELSE hookStep(hk, [hk EXCEPT !.promise = "pending",
                                    !.startedRef = TRUE,
                                    !.cancelRef = TRUE,
                                    !.sub = "connecting"],
                     startStatsFetchIn(limiter))

\* ensureConnected().then of the fetch of a hook: the subscription is
\* opened and registered
hook_then(hk) ==
    /\ hk.sub = "connecting"
    /\ hookStep(hk, [hk EXCEPT
                       !.sub = IF hk.cancelled THEN "none" ELSE "live"],
                limiter)

\* ensureConnected() rejects: onComplete unless cancelled
hook_catch(hk) ==
    /\ hk.sub = "connecting"
    /\ LET to == [hk EXCEPT !.sub = "none"]
       IN  IF hk.cancelled THEN hookStep(hk, to, limiter)
           ELSE hook_doResolve(hk, to, limiter)

\* onStats of the fetch of a hook: the first increment resolves the promise
hook_onStats(hk) ==
    /\ hk.sub = "live" /\ ~hk.cancelled
    /\ IF hk.aborted \/ ~hk.mountedRef
       THEN hookStep(hk, hk, limiter)
       ELSE hook_doResolve(hk, hk, limiter)

\* the grace timer after the end-signal of the fetch of a hook: cleanup()
\* and onComplete()
hook_onComplete(hk) ==
    /\ hk.sub = "live" /\ ~hk.cancelled
    /\ hook_doResolve(hk, [hk EXCEPT !.sub = "stopped"], limiter)

\* the abort listener of the query's signal
hook_abort(hk) ==
    /\ hk.promise = "pending" /\ ~hk.aborted
    /\ LET to == [hk EXCEPT !.aborted = TRUE]
       IN  hook_doResolve(hk, IF to.cancelRef THEN fetch_cancel(to) ELSE to,
                          limiter)

\* the effect cleanup of a hook
hook_unmount(hk) ==
    /\ hk.mountedRef
    /\ LET to == [hk EXCEPT !.mountedRef = FALSE]
           stopped == IF to.cancelRef THEN fetch_cancel(to) ELSE to
       IN  hookStep(hk, [stopped EXCEPT !.cancelRef = FALSE,
                                        !.startedRef = FALSE],
                    endIfStarted(hk, limiter))

HooksNext ==
    \/ \E hk \in BagToSet(hooks), v \in BOOLEAN : useNoteStats_queryFn(hk, v)
    \/ \E hk \in BagToSet(hooks) : hook_then(hk)
    \/ \E hk \in BagToSet(hooks) : hook_catch(hk)
    \/ \E hk \in BagToSet(hooks) : hook_onStats(hk)
    \/ \E hk \in BagToSet(hooks) : hook_onComplete(hk)
    \/ \E hk \in BagToSet(hooks) : hook_abort(hk)
    \/ \E hk \in BagToSet(hooks) : hook_unmount(hk)

\* the hooks while the limiter is reset by the visibility handler
SlotsNext ==
    \/ HooksNext
    \/ resetStatsQueue

(* --------------------------- connection (index.ts) --------------------- *)
\* connectNDK() in the module state n
connectIn(n) ==
    IF n.connectionPromise # 0
    THEN [n EXCEPT !.waits = Append(@, n.connectionPromise)]
    ELSE [n EXCEPT !.attempts = Append(@, "pending"),
                   !.connectionPromise = Len(n.attempts) + 1,
                   !.waits = Append(@, Len(n.attempts) + 1),
                   !.disconnected = FALSE]

connectNDK ==
    /\ Len(ndk.waits) < MaxCalls
    /\ ndk.connectionPromise = 0 => Len(ndk.attempts) < MaxAttempts
    /\ ndk' = connectIn(ndk)
    /\ UNCHANGED ndkFrame

ensureConnected ==
    /\ Len(ndk.waits) < MaxCalls
    /\ ndk.connectionPromise = 0 => Len(ndk.attempts) < MaxAttempts
    /\ ndk' = IF ndk.isShuttingDown
              THEN [ndk EXCEPT !.waits = Append(@, 0)]
              ELSE connectIn(ndk)
    /\ UNCHANGED ndkFrame

\* the promise of ndk.connect() of attempt a resolves
connect_resolve(a) ==
    /\ a \in 1..Len(ndk.attempts) /\ ndk.attempts[a] = "pending"
    /\ ndk' = [ndk EXCEPT !.attempts[a] = "resolved"]
    /\ UNCHANGED ndkFrame

\* the promise of ndk.connect() of attempt a rejects: its catch handler runs
connect_catch(a) ==
    /\ a \in 1..Len(ndk.attempts) /\ ndk.attempts[a] = "pending"
    /\ ndk' = [ndk EXCEPT !.attempts[a] = "rejected",
                          !.connectionPromise = 0]
    /\ UNCHANGED ndkFrame

disconnectNDK ==
    /\ ndk' = disconnectIn(ndk)
    /\ UNCHANGED ndkFrame

ConnectNext ==
    \/ connectNDK
    \/ ensureConnected
    \/ \E a \in 1..MaxAttempts : connect_resolve(a)
    \/ \E a \in 1..MaxAttempts : connect_catch(a)
    \/ disconnectNDK

(* --------------------------- specifications ----------------------------- *)
EnvNext ==
    \/ \E s \in Signals : SourceEmit(s)
    \/ \E d \in {FineStep, TickStep} : Tick(d)

Next ==
    \/ EnvNext
    \/ NoteNext
    \/ RelayNext
    \/ StatsNext
    \/ ProfileNext
    \/ BatchNext
    \/ hook_resolveTimer
    \/ NotesNext
    \/ RepliesNext
    \/ FollowingNext
    \/ FollowersNext

\* every fetcher, one fetch per behaviour
Spec == Init /\ [][Next]_vars

\* the event loop runs every queued handler and every due timer callback;
\* nothing obliges the connection to resolve or the source to emit
Delivery ==
    \/ note_onEvent \/ note_onEose
    \/ relay_onEvent \/ relay_onEose
TimerFires ==
    \/ note_timer
    \/ relay_timeout
Scheduling ==
    /\ WF_vars(\E d \in {FineStep, TickStep} : Tick(d))
    /\ WF_vars(Delivery)
    /\ WF_vars(TimerFires)

NoteSpecNext == EnvNext \/ NoteNext
NoteSpec == Init /\ [][NoteSpecNext]_vars
NoteFairSpec == NoteSpec /\ Scheduling

RelaySpecNext == EnvNext \/ RelayNext
RelayFairSpec == Init /\ [][RelaySpecNext]_vars /\ Scheduling

StatsSpecNext == EnvNext \/ StatsNext
StatsSpec == Init /\ [][StatsSpecNext]_vars

CancelSpecNext == EnvNext \/ StatsNext \/ ProfileNext \/ BatchNext
CancelSpec == Init /\ [][CancelSpecNext]_vars

ProfileSpecNext == EnvNext \/ ProfileNext
ProfileSpec == Init /\ [][ProfileSpecNext]_vars

\* a stats fetch whose sources deliver an event more than once
RedeliverNext == StatsSpecNext \/ \E id \in Ids : SlowSourceEmit(id)
RedeliverSpec == Init /\ [][RedeliverNext]_vars

SeenSpecNext == EnvNext \/ StatsNext \/ hook_resolveTimer \/ NotesNext \/ RepliesNext
SeenSpec == Init /\ [][SeenSpecNext]_vars

RepliesSpecNext == EnvNext \/ hook_resolveTimer \/ RepliesNext
RepliesSpec == Init /\ [][RepliesSpecNext]_vars

LimiterSpec == Init /\ [][LimiterNext]_vars

CacheSpec == Init /\ [][CacheNext]_vars

AccSpec == Init /\ [][AccNext]_vars

\* the calls of the subscription manager
RegistrySpec == Init /\ [][RegistryNext]_vars
ReentrySpec == Init /\ [][ReentryNext]_vars

\* the visibility handler over the registrations of the subscription manager
VisibilitySpec == Init /\ [][VisibilityNext]_vars

\* the three listeners of the visibility handler
EventsNext == VisibilityNext \/ handleBeforeUnload
EventsSpec == Init /\ [][EventsNext]_vars

\* the visibility handler and its listeners
PageSpec == Init /\ [][PageNext]_vars

\* the sweeps of the application query cache
QuerySpec == Init /\ [][QueryNext]_vars

\* one profile search and its socket
SearchSpec == Init /\ [][SearchNext]_vars

\* the useNoteStats hooks and their stats fetches
HooksSpec == Init /\ [][HooksNext]_vars
SlotsSpec == Init /\ [][SlotsNext]_vars

\* the connection singleton and its callers
ConnectSpec == Init /\ [][ConnectNext]_vars

\* the listeners of the visibility handler while handles are registered
ListenerSpec == Init /\ [][ListenerNext]_vars

\* the page becomes hidden while the registry, the cache and the limiter
\* are in use
HiddenSpec == Init /\ [][HiddenNext]_vars

\* full teardown while the registry, the cache and the limiter are in use
TeardownSpec == Init /\ [][TeardownNext]_vars

(* ------------------------------- claims --------------------------------- *)
Started(fn) == f.fn = fn /\ conn # "invalid"

\* C1: a single-item fetch that passed validation and is never cancelled
\* invokes onComplete at most once, whatever the order of the matching
\* event, the end-signal and the timer the end-signal started.
C1_NoteCompletesAtMostOnce ==
    (Started("note") /\ ~obs.cancelCalled) => obs.complete <= 1

\* C2: a stats fetch that passed validation and is never cancelled invokes
\* onComplete at most once, also when the end-signal is delivered twice.
C2_StatsCompletesAtMostOnce ==
    (Started("stats") /\ ~obs.cancelCalled) => obs.complete <= 1

\* C3: a relay-list fetch with a non-empty key that is never cancelled
\* invokes onComplete exactly once: never twice, and eventually once, even
\* when the connection never resolves and the source stays silent.
C3_RelayCompletesExactlyOnce ==
    /\ []((Started("relay") /\ ~obs.cancelCalled) => obs.complete <= 1)
    /\ (Started("relay") ~> (obs.complete = 1 \/ obs.cancelCalled))

\* the absolute timeout has completed the fetch while the connection is
\* still pending
C3_Witness ==
    Started("relay") /\ conn = "pending" /\ obs.complete = 1 /\ ~obs.cancelCalled

\* C4: a single-item fetch whose id is never delivered eventually invokes
\* onComplete (with no onNote before it), under fair timers, whatever the
\* data source does.
C4_NoteSettlesWhenNeverDelivered ==
    Started("note") ~> (obs.complete >= 1 \/ obs.inc >= 1 \/ obs.cancelCalled)

\* C5: once cancel() of a stats, profile or profile-batch fetch has been
\* called, neither its increment callback nor its onComplete is invoked.
C5_NoCallbackAfterCancel ==
    f.fn \in {"stats", "profile", "batch"} =>
        obs.incAfterCancel = 0 /\ obs.completeAfterCancel = 0

\* cancel() was called while the grace timer of an earlier end-signal is
\* still pending and a signal is still queued for delivery
C5_Witness ==
    /\ f.fn = "stats" /\ obs.cancelCalled /\ f.cancelled
    /\ \E t \in timers : t.kind = "stats"
    /\ queue # <<>>

\* C6: once cancel() of a list fetch has been called, neither its increment
\* callback nor its onComplete is invoked.
C6_ListNoCallbackAfterCancel ==
    f.fn \in {"notes", "replies", "following", "followers"} =>
        obs.incAfterCancel = 0 /\ obs.completeAfterCancel = 0

\* a handler runs for an event whose id is in the seen set of the fetch
DeliversSeen ==
    /\ f.fn \in {"stats", "notes", "replies"}
    /\ queue # <<>> /\ Head(queue).type = "event"
    /\ has(f.seen, Head(queue).id)
    /\ queue' = Tail(queue)

\* C7: delivering an event whose id is in the seen set of the fetch calls no
\* increment callback and changes neither the counters nor the seen sets.
C7_SeenEventIgnored ==
    [][DeliversSeen =>
         /\ obs'.inc = obs.inc
         /\ f'.stats = f.stats
         /\ f'.seen = f.seen
         /\ hook'.seen = hook.seen]_vars

\* two events were handled by a live stats fetch and one of them was dropped
\* as already seen
C7_Witness ==
    /\ Started("stats") /\ ~f.cancelled /\ f.sub = "ref"
    /\ emitted.n = 2 /\ emitted.eose = 0 /\ queue = <<>>
    /\ obs.inc = 1 /\ Len(f.seen) = 1

\* an id is inserted into a seen set that is at its cap
InsertsAtCap(seen, seenAfter, cap) ==
    /\ Len(seen) = cap
    /\ seenAfter # seen /\ seenAfter # <<>>

\* C8: a bounded seen set never holds more than its cap; inserting a new id
\* at cap removes exactly the oldest-inserted id.
C8_SeenSetBounded ==
    /\ [](/\ f.fn = "stats" => Len(f.seen) <= MAX_SEEN_EVENTS
          /\ f.fn = "notes" => Len(hook.seen) <= MAX_SEEN_ITEMS_NOTES
          /\ f.fn = "replies" => Len(hook.seen) <= MAX_SEEN_ITEMS)
    /\ [][/\ (f.fn = "stats" /\ InsertsAtCap(f.seen, f'.seen, MAX_SEEN_EVENTS)) =>
               f'.seen = Append(Tail(f.seen), Head(queue).id)
          /\ (f.fn = "notes" /\ InsertsAtCap(hook.seen, hook'.seen, MAX_SEEN_ITEMS_NOTES)) =>
               hook'.seen = Append(Tail(hook.seen), Head(queue).id)
          /\ (f.fn = "replies" /\ InsertsAtCap(hook.seen, hook'.seen, MAX_SEEN_ITEMS)) =>
               hook'.seen = Append(Tail(hook.seen), Head(queue).id)]_vars

\* more ids than the cap were inserted into the stats seen set
C8_Witness ==
    /\ f.fn = "stats" /\ obs.inc > MAX_SEEN_EVENTS
    /\ Len(f.seen) = MAX_SEEN_EVENTS

DebounceTimers == {t \in timers : t.kind = "debounce"}
Last(sq) == sq[Len(sq)]

\* C9: key additions that each restart the debounce window produce one
\* batched fetch, issued no earlier than one window after the last addition,
\* for exactly the set of keys added since the previous batched fetch.
C9_OneBatchPerBurst ==
    /\ [](f.fn = "replies" =>
            /\ Cardinality(DebounceTimers) <= 1
            /\ batcher.burst # {} =>
                 /\ batcher.pending = batcher.burst
                 /\ \E t \in DebounceTimers :
                      t.at = batcher.lastAdd + PROFILE_BATCH_DELAY)
    /\ [][batcher'.issued # batcher.issued =>
            /\ Len(batcher'.issued) = Len(batcher.issued) + 1
            /\ batcher.burst # {}
            /\ Last(batcher'.issued).keys = batcher.burst
            /\ now >= batcher.lastAdd + PROFILE_BATCH_DELAY
            /\ batcher'.burst = {} /\ batcher'.pending = {}]_vars

\* one batched fetch was issued for two keys added at different times
C9_Witness ==
    /\ Len(batcher.issued) = 1
    /\ Cardinality(batcher.issued[1].keys) = 2
    /\ batcher.issued[1].at > PROFILE_BATCH_DELAY

\* the callbacks invoked so far that had been pushed on the pending queue
DeferredInvoked == SelectSeq(limiter.invoked, LAMBDA c : c \in limiter.deferred)

\* C10: a callback handed to queueStatsFetch while every slot is held is not
\* invoked during that call but pushed on the queue; a queued callback is
\* invoked only by endStatsFetch, at most one per call, and queued callbacks
\* are invoked in the order in which they were queued.
C10_QueuedRunInOrderOnEnd ==
    /\ [](\A i, j \in 1..Len(DeferredInvoked) :
            i < j => DeferredInvoked[i] < DeferredInvoked[j])
    /\ [][/\ (/\ limiter'.nextCb # limiter.nextCb
              /\ limiter.activeStatsCount >= MAX_CONCURRENT_STATS)
             => /\ limiter'.invoked = limiter.invoked
                /\ limiter.nextCb \in limiter'.deferred
                /\ Last(limiter'.pendingStats) = limiter.nextCb
          /\ limiter'.invoked # limiter.invoked
             => /\ Len(limiter'.invoked) = Len(limiter.invoked) + 1
                /\ SubSeq(limiter'.invoked, 1, Len(limiter.invoked))
                     = limiter.invoked
                /\ Last(limiter'.invoked) \in limiter.deferred
                     => limiter'.op = "endStatsFetch"
          /\ limiter'.op = "endStatsFetch"
             => Len(limiter'.invoked) <= Len(limiter.invoked) + 1]_vars

\* two callbacks queued while every slot was held have both been invoked by
\* later endStatsFetch calls
C10_Witness ==
    /\ Len(DeferredInvoked) = 2
    /\ limiter.op = "endStatsFetch"

\* a call of queueStatsFetch that finds every slot held and the queue full
QueuesWhenFull ==
    /\ limiter'.nextCb # limiter.nextCb
    /\ limiter.activeStatsCount >= MAX_CONCURRENT_STATS
    /\ Len(limiter.pendingStats) >= MAX_PENDING_STATS

\* C11: the pending queue never holds more than MAX_PENDING_STATS callbacks;
\* queueStatsFetch on a full queue removes the oldest queued callback, which
\* no later operation invokes, and appends the new callback at the tail.
C11_PendingQueueBounded ==
    /\ [](Len(limiter.pendingStats) <= MAX_PENDING_STATS)
    /\ [](\A i \in 1..Len(limiter.invoked) :
            limiter.invoked[i] \notin limiter.dropped)
    /\ [][QueuesWhenFull =>
            /\ limiter'.pendingStats =
                 Append(Tail(limiter.pendingStats), limiter.nextCb)
            /\ limiter'.dropped =
                 limiter.dropped \cup {Head(limiter.pendingStats)}
            /\ limiter'.invoked = limiter.invoked]_vars

\* a callback was dropped from the full queue and a later endStatsFetch
\* invoked the callback queued after it
C11_Witness ==
    /\ limiter.dropped # {}
    /\ limiter.op = "endStatsFetch"
    /\ Len(DeferredInvoked) >= 1

\* C12: activeStatsCount stays within 0..MAX_CONCURRENT_STATS; startStatsFetch
\* returns true and raises the count by one iff the count was below the
\* maximum, and otherwise returns false and changes neither the count nor
\* the queue; canStartStatsFetch changes neither.
C12_CountWithinCapacity ==
    /\ [](limiter.activeStatsCount \in 0..MAX_CONCURRENT_STATS)
    /\ [][/\ limiter'.op = "startStatsFetch" /\ limiter' # limiter
             => /\ limiter'.ret = (limiter.activeStatsCount
                                     < MAX_CONCURRENT_STATS)
                /\ limiter'.activeStatsCount =
                     IF limiter'.ret THEN limiter.activeStatsCount + 1
                                     ELSE limiter.activeStatsCount
                /\ limiter'.pendingStats = limiter.pendingStats
                /\ limiter'.invoked = limiter.invoked
          /\ limiter'.op = "canStartStatsFetch"
             => /\ limiter'.activeStatsCount = limiter.activeStatsCount
                /\ limiter'.pendingStats = limiter.pendingStats
                /\ limiter'.invoked = limiter.invoked
                /\ limiter'.ret = (limiter.activeStatsCount
                                     < MAX_CONCURRENT_STATS)]_vars

\* startStatsFetch was refused with every slot held
C12_Witness ==
    /\ limiter.op = "startStatsFetch"
    /\ ~limiter.ret
    /\ limiter.activeStatsCount = MAX_CONCURRENT_STATS

\* C13: getCachedStats(key) returns the stored value iff an entry for key
\* exists whose age is strictly less than the TTL; otherwise it returns none
\* and no entry for key exists afterwards.
C13_ReadReturnsFreshOnly ==
    [][\A noteId \in CacheKeys :
         (statsCache'.op = "get" /\ getCachedStats(noteId)) =>
           LET entry == statsCache.entries[noteId]
               fresh == /\ entry # NoEntry
                        /\ statsCache.now - entry.timestamp < STATS_CACHE_TTL
           IN IF fresh
              THEN /\ statsCache'.ret = entry.stats
                   /\ statsCache'.entries = statsCache.entries
              ELSE /\ statsCache'.ret = NoCachedStats
                   /\ statsCache'.entries[noteId] = NoEntry]_vars

\* C13 as the code has it: getCachedStats(key) returns the stored value iff
\* an entry for key exists whose age is at most the TTL (an entry exactly as
\* old as the TTL is still returned); otherwise it returns none and no entry
\* for key exists afterwards.
C13_ReadReturnsUnexpired ==
    [][\A noteId \in CacheKeys :
         (statsCache'.op = "get" /\ getCachedStats(noteId)) =>
           LET entry == statsCache.entries[noteId]
               unexpired ==
                   /\ entry # NoEntry
                   /\ statsCache.now - entry.timestamp <= STATS_CACHE_TTL
           IN IF unexpired
              THEN /\ statsCache'.ret = entry.stats
                   /\ statsCache'.entries = statsCache.entries
              ELSE /\ statsCache'.ret = NoCachedStats
                   /\ statsCache'.entries[noteId] = NoEntry]_vars

\* a read returned an entry exactly as old as the TTL
C13_Witness ==
    /\ statsCache.op = "get"
    /\ \E noteId \in CacheKeys :
         /\ statsCache.entries[noteId] # NoEntry
         /\ statsCache.ret = statsCache.entries[noteId].stats
         /\ statsCache.now - statsCache.entries[noteId].timestamp
              = STATS_CACHE_TTL

\* C14: the stats cache holds at most MAX_CACHE_ENTRIES entries; a
\* setCachedStats at capacity removes floor(20% of capacity) entries, none of
\* them newer than an entry it retains, and the new entry is present
\* afterwards with the current timestamp.
C14_CacheBoundedEvictsOldest ==
    /\ [](Cardinality(cached(statsCache.entries)) <= MAX_CACHE_ENTRIES)
    /\ [][\A noteId \in CacheKeys :
            (/\ statsCache'.op \in {"set", "evict"}
             /\ statsCache'.entries[noteId].timestamp = statsCache.now
             /\ setCachedStats(noteId)) =>
              LET before == statsCache.entries
                  after == statsCache'.entries
                  removed == cached(before) \ cached(after)
                  retained == (cached(before) \cap cached(after)) \ {noteId}
                  \* the key itself was among the oldest and was set again
                  rewritten ==
                      /\ noteId \in cached(before)
                      /\ \A q \in retained :
                           before[noteId].timestamp <= before[q].timestamp
              IN /\ after[noteId] =
                      [stats |-> StatsAt(noteId, statsCache.now),
                       timestamp |-> statsCache.now]
                 /\ \A q \in retained : after[q] = before[q]
                 /\ \A r \in removed : \A q \in retained :
                      before[r].timestamp <= before[q].timestamp
                 /\ IF Cardinality(cached(before)) >= MAX_CACHE_ENTRIES
                    THEN \/ Cardinality(removed) = entriesToRemove
                         \/ /\ Cardinality(removed) = entriesToRemove - 1
                            /\ rewritten
                    ELSE removed = {}]_vars

\* a setCachedStats for a new key found the cache at capacity and evicted,
\* while entries of different ages were cached
C14_Witness ==
    /\ statsCache.op = "evict"
    /\ Cardinality(cached(statsCache.entries))
         = MAX_CACHE_ENTRIES - entriesToRemove + 1
    /\ \E p, q \in cached(statsCache.entries) :
         statsCache.entries[p].timestamp < statsCache.entries[q].timestamp
         /\ statsCache.entries[q].timestamp < statsCache.now

\* C15: after every increment and for every arrival order the accumulated
\* list has no two items with one id, holds exactly the ids that arrived and
\* is sorted: notes by non-increasing createdAt, replies by non-decreasing
\* createdAt; the notes A (createdAt 10) and B (createdAt 5) arriving in
\* either order yield <<A, B>>.
C15_AccumulatorSortedNoDuplicates ==
    LET list == acc.collected IN
    /\ \A i, j \in 1..Len(list) : i < j => list[i].id # list[j].id
    /\ {list[i].id : i \in 1..Len(list)}
         = {acc.arrived[i] : i \in 1..Len(acc.arrived)}
    /\ \A i \in 1..Len(list) : list[i] = Item(list[i].id)
    /\ acc.hook = "useNotes" =>
         \A i, j \in 1..Len(list) :
            i < j => list[i].createdAt >= list[j].createdAt
    /\ acc.hook = "useReplies" =>
         \A i, j \in 1..Len(list) :
            i < j => list[i].createdAt <= list[j].createdAt
    /\ (acc.hook = "useNotes" /\ acc.arrived \in {<<3, 1>>, <<1, 3>>})
         => list = <<Item(3), Item(1)>>

\* the older note arrived first and a duplicate arrived, and the newer note
\* stands first
C15_Witness ==
    /\ acc.hook = "useNotes"
    /\ acc.arrived = <<1, 3, 1>>
    /\ acc.collected = <<Item(3), Item(1)>>

\* the visibilitychange listener runs in a visible page whose document has
\* become hidden
BecomesHidden == page.isVisible /\ handleVisibilityChange(TRUE)

\* C16 as stated: a visible-to-hidden transition stops every registered
\* handle and leaves the set of registered ids exactly as it was
C16_HiddenRetainsAllEntries ==
    [][BecomesHidden =>
         /\ \A i \in registered(registry) : registry'.sub[i] = "stopped"
         /\ registered(registry') = registered(registry)]_vars

\* C16 amended: a visible-to-hidden transition stops every registered handle
\* and retains, unchanged, exactly the entries that are not older than the
\* orphan age of 5 minutes; the older ones are unregistered
C16_HiddenRetainsYoungEntries ==
    [][BecomesHidden =>
         /\ \A i \in registered(registry) : registry'.sub[i] = "stopped"
         /\ registered(registry') =
              {i \in registered(registry) :
                 registry.active[i].createdAt >=
                     registry.now - ORPHAN_MAX_AGE}
         /\ \A i \in registered(registry') :
              registry'.active[i] = registry.active[i]]_vars

\* the handler has just run for a hidden transition that found an entry as
\* old as the orphan age, which it kept, and an older one, which it removed
C16_Witness ==
    /\ registry.op = "hidden"
    /\ ~page.isVisible
    /\ \E i \in registered(registry) :
         /\ registry.active[i].createdAt = registry.now - ORPHAN_MAX_AGE
         /\ registry.sub[i] = "stopped"
    /\ \E i \in RegIds \ registered(registry) : registry.sub[i] = "stopped"

\* C17: whenever the registry is paused, the handle of every registered
\* entry has been stopped
C17_PausedMeansAllStopped ==
    registry.paused =>
        \A i \in registered(registry) : registry.sub[i] = "stopped"

\* a handle has just been registered in a registry that was paused while
\* another entry was registered
C17_Witness ==
    /\ registry.paused
    /\ registry.op = "register"
    /\ registry.stopCalls > 0
    /\ registered(registry) = RegIds

\* C18: a subscription opened by a streaming fetcher is registered in the
\* subscription registry for as long as it is live
C18_LiveSubscriptionRegistered ==
    handle = "live" => f.subId \in active

\* C19: unregister(id) of a registered id invokes the entry's cleanup once,
\* stops its handle once and removes the entry; unregister(id) of an id that
\* is not registered invokes nothing and leaves the registry as it was
C19_UnregisterIdempotent ==
    [][\A id \in RegIds :
         unregister(id) =>
           IF registry.active[id].registered
           THEN /\ registry'.cleanupCalls = 1
                /\ registry'.stopCalls = 1
                /\ ~registry'.active[id].registered
           ELSE /\ registry'.cleanupCalls = 0
                /\ registry'.stopCalls = 0
                /\ registry'.active = registry.active
                /\ registry'.sub = registry.sub
                /\ registry'.paused = registry.paused]_vars

\* the entry of id is one whose cleanup throws
Throwing(id) ==
    registry.active[id].registered /\ registry.active[id].cleanup = "throws"

\* C20: when the cleanup of an entry throws during its unregister, called
\* directly or by stopAll or cleanupOld, the handle of the entry is stopped
\* all the same and the entry is removed
C20_ThrowingCleanupStillStops ==
    [][\A id \in RegIds :
         (/\ Throwing(id)
          /\ \/ unregister(id)
             \/ stopAll
             \/ /\ cleanupOld(ORPHAN_MAX_AGE)
                /\ registry.active[id].createdAt <
                      registry.now - ORPHAN_MAX_AGE)
         => /\ ~registry'.active[id].registered
            /\ registry'.sub[id] = "stopped"]_vars

\* C21: register(id, h2, c2) for an id already bound to (h1, c1) invokes c1
\* and stops h1, and leaves id bound to (h2, c2) alone, h2 being stopped
\* exactly when the registry is paused; the other entries are left as they were
C21_RegisterReplacesEntry ==
    [][\A id \in RegIds, c2 \in Cleanups :
         (registry.active[id].registered /\ register(id, c2)) =>
           /\ registry'.cleanupCalls >= 1
           /\ registry'.prev = "stopped"
           /\ registry'.active[id] =
                [registered |-> TRUE, cleanup |-> c2,
                 createdAt |-> registry.now, subRef |-> c2 = "stats"]
           /\ registry'.sub[id] =
                (IF registry.paused THEN "stopped" ELSE "live")
           /\ \A j \in RegIds \ {id} :
                /\ registry'.active[j] = registry.active[j]
                /\ registry'.sub[j] = registry.sub[j]]_vars

\* C22: while the handler is initialized, isPageVisible() is true as long
\* as the document has never been visible; once a visibilitychange event
\* has found the document visible, isPageVisible() is the document's
\* current visibility; and hasEverBeenVisible, once true, stays true
C22_FirstVisibilityLatch ==
    [][page'.initialized =>
         /\ ~page'.everVisible => isPageVisible(page')
         /\ page'.reported => (isPageVisible(page') = ~page'.hidden)
         /\ (page.initialized /\ page.hasEverBeenVisible)
               => page'.hasEverBeenVisible]_vars

\* a page opened hidden whose handler has found it hidden only: isVisible
\* is false and isPageVisible() is true
C22_Witness ==
    /\ page.initialized
    /\ ~page.everVisible
    /\ page.hidden /\ ~page.isVisible
    /\ isPageVisible(page)

\* C24: when the visibilitychange listener finds a hidden page visible, the
\* paused flag is cleared by the time the listeners are called, every
\* listener registered then is called exactly once with true, a throwing one
\* included and whatever its place, and the state of every handle is as it
\* was; when the listener finds the visibility unchanged, no listener is
\* called
C24_ResumeNotifiesEveryListener ==
    [][\A h \in BOOLEAN :
         handleVisibilityChange(h) =>
           IF page.isVisible = ~h
           THEN page'.calls = <<>>
           ELSE ~h =>
                  /\ ~registry'.paused
                  /\ page.callbacks # <<>> => ~page'.seen.paused
                  /\ page'.calls =
                       [i \in 1..Len(page.callbacks) |->
                          [cb |-> page.callbacks[i], visible |-> TRUE]]
                  /\ registry'.sub = registry.sub
                  /\ registry'.stopCalls = 0]_vars

\* a page has just become visible again: the throwing listener was called
\* first and the other one after it, the registry is no longer paused and
\* the handle the pause stopped is still stopped
C24_Witness ==
    /\ registry.op = "visible"
    /\ ~registry.paused
    /\ Len(page.calls) = NumListeners
    /\ ListenerThrows(page.calls[1].cb)
    /\ \A i \in 1..Len(page.calls) : page.calls[i].visible
    /\ \E id \in registered(registry) : registry.sub[id] = "stopped"

\* C23: when the visibilitychange listener finds a visible page hidden, it
\* leaves the registry paused, the stats cache empty, the limiter with no
\* slot taken and nothing queued, and no registered entry older than the
\* orphan age; the listeners are called with false and find all of this
\* done
C23_HiddenCleansUpBeforeNotifying ==
    [][BecomesHidden =>
         /\ registry'.paused
         /\ cached(statsCache'.entries) = {}
         /\ limiter'.activeStatsCount = 0
         /\ limiter'.pendingStats = <<>>
         /\ \A i \in registered(registry') :
              registry'.active[i].createdAt >= registry'.now - ORPHAN_MAX_AGE
         /\ page.callbacks # <<>> =>
              /\ \A i \in 1..Len(page'.calls) : ~page'.calls[i].visible
              /\ Len(page'.calls) = Len(page.callbacks)
              /\ page'.seen = [paused |-> TRUE, cached |-> 0, active |-> 0,
                               pending |-> 0, old |-> 0]]_vars

\* the page has just become hidden with a listener: the listener was told
\* so, an entry older than the orphan age is gone, and the callbacks that
\* had been queued behind a full limiter are dropped
C23_Witness ==
    /\ registry.op = "hidden"
    /\ Len(page.calls) > 0
    /\ ~page.calls[1].visible
    /\ registered(registry) = {}
    /\ registry.sub[1] = "stopped"
    /\ registry.cleanupCalls = 1
    /\ limiter.deferred # {}
    /\ limiter.op = "resetStatsQueue"

\* the beforeunload listener runs or CacheInitializer is unmounted
FullTeardown ==
    handleBeforeUnload \/ \E h \in BOOLEAN : CacheInitializer_unmount(h)

\* C25: full teardown leaves the registry without entries, every handle
\* that was registered stopped, the stats cache empty and the limiter with
\* no slot taken and nothing queued
C25_TeardownStopsEverything ==
    [][FullTeardown =>
         /\ registered(registry') = {}
         /\ \A i \in registered(registry) : registry'.sub[i] = "stopped"
         /\ cached(statsCache'.entries) = {}
         /\ limiter'.activeStatsCount = 0
         /\ limiter'.pendingStats = <<>>]_vars

\* a sweep removes queries only, and no query it keeps was updated before
\* one it removes
OldestFirst ==
    /\ \A q \in held(queryCache'.queries) :
         queryCache'.queries[q] = queryCache.queries[q]
    /\ \A k \in held(queryCache'.queries) :
         \A r \in held(queryCache.queries) \ held(queryCache'.queries) :
            queryCache.queries[r] <= queryCache'.queries[k]

\* C26: a periodic or regained-visibility sweep leaves at most
\* MAX_CACHE_QUERIES queries, a memory-pressure sweep at most
\* floor(MAX_CACHE_QUERIES / 2), and a sweep removes the queries updated
\* longest ago first
C26_SweepBoundsQueryCache ==
    [][/\ queryCache'.op \in {"periodic", "visibility"} =>
            /\ Cardinality(held(queryCache'.queries)) <= MAX_CACHE_QUERIES
            /\ OldestFirst
       /\ queryCache'.op = "pressure" =>
            /\ Cardinality(held(queryCache'.queries))
                  <= MAX_CACHE_QUERIES \div 2
            /\ OldestFirst]_vars

\* a memory-pressure sweep has just cut the cache down to half the limit,
\* keeping a query updated later than the ones it removed
C26_Witness ==
    /\ queryCache.op = "pressure"
    /\ ~queryCache.isLowMemoryDevice
    /\ Cardinality(held(queryCache.queries)) = MAX_CACHE_QUERIES \div 2
    /\ \E q \in held(queryCache.queries) : queryCache.queries[q] = MaxUpdatedAt

\* a fetcher is called with the empty key (an empty list of keys for the
\* batch fetcher)
CalledWithInvalidKey ==
    /\ f.fn = "none"
    /\ f'.fn # "none"
    /\ IF f'.fn = "batch" THEN f'.key = {} ELSE f'.key = EmptyKey

\* C27: a fetcher called with an empty or invalid key has called onComplete
\* once by the time it returns, awaits no connection, creates no
\* subscription and delivers no increment other than an empty one; and
\* from then on nothing changes, the returned cancel() being without effect
C27_InvalidKeyCompletesAtOnce ==
    [][/\ CalledWithInvalidKey => conn' = "invalid"
       /\ conn' = "invalid" =>
            /\ obs'.complete = 1
            /\ obs'.inc = obs'.empty
            /\ obs'.subscribes = 0
            /\ handle' = "none"
            /\ f'.sub = "null"
            /\ ~f'.cancelled
       /\ conn = "invalid" =>
            /\ conn' = "invalid"
            /\ f' = f
            /\ obs' = [obs EXCEPT !.cancelCalled = obs'.cancelCalled]]_vars

\* the cancel() returned for an empty key has been called
C27_Witness ==
    /\ conn = "invalid"
    /\ f.fn = "following"
    /\ obs.cancelCalled
    /\ obs.complete = 1
    /\ obs.empty = 1

\* C28: when ensureConnected rejects for a fetch that has not been
\* cancelled, the fetch has called onComplete exactly once and holds no
\* subscription; afterwards it never subscribes and never completes again
C28_RejectedConnectionCompletesOnce ==
    [][/\ (conn = "pending" /\ conn' = "rejected" /\ ~f.cancelled) =>
            /\ obs'.complete = 1
            /\ obs'.subscribes = 0
            /\ handle' = "none"
            /\ f'.sub = "null"
       /\ conn = "rejected" =>
            /\ conn' = "rejected"
            /\ obs'.complete = obs.complete
            /\ obs'.subscribes = 0
            /\ handle' = "none"
            /\ f'.sub = "null"]_vars

\* the connection of a relay list fetch was rejected and the fetch was
\* cancelled only afterwards
C28_Witness ==
    /\ conn = "rejected"
    /\ f.fn = "relay"
    /\ f.completed
    /\ obs.complete = 1
    /\ obs.completeAfterCancel = 0
    /\ obs.cancelCalled

\* the counter of the stats record that a kind of the filter is mapped to
CounterOf(kind) ==
    CASE kind = 1 -> "replies"
      [] kind = 6 -> "reposts"
      [] kind = 7 -> "likes"
      [] kind = 9735 -> "zaps"

\* C29: a stats fetch opens at most one subscription, for the kinds 1, 6, 7
\* and 9735, and exactly one while its handle is live; an event that is new
\* to the seen set adds one to the counter of its kind and leaves the other
\* three counters as they were; every onStats call is handed the counters
\* accumulated so far, none of them lower than in the call before; and an
\* event already seen changes no counter and calls nothing
C29_StatsCountersByKind ==
    [][f'.fn = "stats" =>
        /\ obs'.subscribes <= 1
        /\ handle' = "live" => obs'.subscribes = 1
        /\ (/\ f.fn = "stats" /\ queue # <<>> /\ queue' = Tail(queue)
            /\ Head(queue).type = "event"
            /\ ~f.cancelled /\ ~has(f.seen, Head(queue).id)) =>
                obs'.inc = obs.inc + 1
        /\ IF obs'.inc # obs.inc
           THEN LET id == Head(queue).id
                    k == KindOf(id)
                IN /\ obs'.inc = obs.inc + 1
                   /\ ~has(f.seen, id)
                   /\ k \in {StatKinds[i] : i \in DOMAIN StatKinds}
                   /\ \A c \in {"replies", "reposts", "likes", "zaps"} :
                        f'.stats[c] =
                            f.stats[c] + (IF c = CounterOf(k) THEN 1 ELSE 0)
                   /\ obs'.stats = f'.stats
                   /\ \A c \in DOMAIN NoStats : obs'.stats[c] >= obs.stats[c]
           ELSE /\ f'.stats = f.stats
                /\ obs'.stats = obs.stats]_vars

\* onStats was called for a reply and for a zap receipt with an amount
C29_Witness ==
    /\ f.fn = "stats"
    /\ obs.inc = 2
    /\ obs.stats.replies = 1
    /\ obs.stats.zaps = 1
    /\ obs.stats.zapsAmount = 1
    /\ obs.stats.likes = 0

\* the batched profile fetches that were issued and have neither completed
\* nor been cancelled
InFlight(b) == (1..Len(b.issued)) \ (b.settled \cup b.cancelled)

\* C30: when the effect cleanup of useReplies has run, no batched profile
\* fetch is left in flight, no debounce timer is pending and the pending
\* set is empty
C30_TeardownCancelsEveryBatch ==
    [][(~hook.cancelledRef /\ hook'.cancelledRef) =>
        /\ InFlight(batcher') = {}
        /\ \A t \in timers' : t.kind # "debounce"
        /\ batcher'.pending = {}]_vars

\* the last call tore down the stats entry of id: the fetch's own cleanup,
\* or unregister, stopAll or cleanupOld of the registry
TornDown(id) ==
    /\ registry.active[id].registered
    /\ registry.active[id].cleanup = "stats"
    /\ \/ stats_cleanupCalled(id)
       \/ unregister(id)
       \/ stopAll
       \/ /\ cleanupOld(ORPHAN_MAX_AGE)
          /\ registry.active[id].createdAt < registry.now - ORPHAN_MAX_AGE

\* C31: the teardown of a registered stats fetch, started by the fetch's
\* cleanup or by the registry, ends with the entry removed, and the cleanup
\* and unregister do not call each other until the stack runs out
C31_TeardownReentrancyBounded ==
    [][\A id \in RegIds :
         TornDown(id) =>
            /\ ~registry'.active[id].registered
            /\ ~registry'.overflow]_vars

\* the part of C31 that the code keeps: the teardown ends with the entry
\* removed and its handle stopped
C31_TeardownRemovesEntry ==
    [][\A id \in RegIds :
         TornDown(id) =>
            /\ ~registry'.active[id].registered
            /\ registry'.sub[id] = "stopped"]_vars

\* C32: a searchProfiles call with a query of at least two characters that
\* is never cancelled invokes onComplete at most once, whatever the order
\* of the end-of-results message, the error, the close event and the timeout
C32_SearchCompletesOnce ==
    (search.started /\ Len(search.query) >= 2 /\ ~search.cancelCalled)
        => search.complete <= 1

\* a call of connectNDK or ensureConnected returns
ConnectCall == Len(ndk'.waits) = Len(ndk.waits) + 1

\* what C33 asks of a call made in the module state n, the latest attempt
\* being cur: no further attempt while cur is pending or has succeeded, one
\* new attempt after cur has failed
Idempotent(n, m) ==
    LET cur == Len(n.attempts)
    IN  IF n.attempts[cur] \in {"pending", "resolved"}
        THEN /\ m.attempts = n.attempts
             /\ Last(m.waits) = cur
        ELSE /\ m.attempts = Append(n.attempts, "pending")
             /\ Last(m.waits) = cur + 1

\* C33: a call of connectNDK or ensureConnected made while the latest
\* attempt is pending or has succeeded, with no disconnectNDK since that
\* attempt started, starts no attempt and waits on that one; a call made
\* after the latest attempt has failed starts exactly one new attempt
C33_ConnectIdempotent ==
    [][(ConnectCall /\ ndk.attempts # <<>> /\ ~ndk.disconnected)
          => Idempotent(ndk, ndk')]_vars

\* C33 for the executions in which disconnectNDK is never called
C33_ConnectIdempotentNeverDisconnected ==
    [][(ConnectCall /\ ndk.attempts # <<>> /\ ~ndk.everDisconnected)
          => Idempotent(ndk, ndk')]_vars

\* one of the listeners of the visibility handler runs
EnvironmentEvent ==
    \/ \E h \in BOOLEAN : handleVisibilityChange(h)
    \/ handlePageHide
    \/ handleBeforeUnload

\* C34: when a visibilitychange, pagehide or beforeunload listener has
\* run and the page is visible, the registry is not paused
C34_VisibleMeansNotPaused ==
    [][EnvironmentEvent => (~page'.hidden => ~registry'.paused)]_vars

\* C34 for the visibilitychange listener alone: it can find the page
\* visible and leave the registry paused
C34_VisibilityChangeResumes ==
    [][(\E h \in BOOLEAN : handleVisibilityChange(h))
          => (~page'.hidden => ~registry'.paused)]_vars

\* the number of hooks whose stats subscription is live, and of those that
\* hold a slot
LiveHooks ==
    BagCardinality([hk \in {x \in BagToSet(hooks) : x.sub = "live"}
                       |-> hooks[hk]])
SlotHolders ==
    BagCardinality([hk \in {x \in BagToSet(hooks) : x.startedRef}
                       |-> hooks[hk]])

\* C35: the stats subscriptions that are live are at most
\* MAX_CONCURRENT_STATS
C35_LiveStatsSubscriptionsBounded ==
    LiveHooks <= MAX_CONCURRENT_STATS

\* C36: the operations that obtained a slot and have not called
\* endStatsFetch are at most MAX_CONCURRENT_STATS, resets included
C36_SlotHoldersBounded ==
    SlotHolders <= MAX_CONCURRENT_STATS

(* ------------------- counters and distinct event ids -------------------- *)
StatsCounted(st) == st.replies + st.reposts + st.likes + st.zaps

\* C37: in a stats fetch every distinct event id contributes to the counters
\* at most once: replies + reposts + likes + zaps never exceeds the number of
\* distinct event ids delivered, whatever ids are delivered again later.
C37_EachIdCountedOnce ==
    f.fn = "stats" => StatsCounted(f.stats) <= Cardinality(obs.delivered)

\* the same bound while the subscription is live (the seen set has not been
\* cleared) and no more distinct ids than the seen set holds were delivered
C37_CountedOnceBelowCap ==
    (f.fn = "stats" /\ handle = "live"
     /\ Cardinality(obs.delivered) <= MAX_SEEN_EVENTS) =>
        StatsCounted(f.stats) <= Cardinality(obs.delivered)

\* the bound while the subscription is live, evictions included
C37_CountedOnceWhileLive ==
    (f.fn = "stats" /\ handle = "live") =>
        StatsCounted(f.stats) <= Cardinality(obs.delivered)

(* ------------------ relay list fetch after completion ------------------- *)
\* C38: once fetchRelayListStreaming has invoked onComplete it never
\* afterwards creates a subscription and never invokes onRelayList, also when
\* the absolute timeout fires while the connection is pending and the
\* connection resolves later.
C38_NothingAfterRelayComplete ==
    [][(f.fn = "relay" /\ obs.complete >= 1) =>
           (obs'.subscribes = obs.subscribes /\ obs'.inc = obs.inc)]_vars

(* ------------- the subscription manager and a stats fetch --------------- *)
\* what a call of the subscription manager on the entry of the stats fetch
\* leaves alone besides the fetch and the manager
managedFrame == <<limiter, statsCache, acc, page, queryCache, search, ndk,
                  hooks>>

\* pauseAll(): stops the handle of every entry and keeps the entries
stats_pauseAll ==
    /\ f.fn = "stats"
    /\ registry' = pauseAllIn(called(registry, "pauseAll", 0))
    /\ handle' = IF ~registry.paused /\ f.subId \in active
                 THEN "stopped" ELSE handle
    /\ UNCHANGED <<f, conn, queue, emitted, timers, nextTid, now, obs, active>>
    /\ UNCHANGED <<hook, batcher>>
    /\ UNCHANGED managedFrame

\* unregister(subId) on the entry of the stats fetch: the entry's cleanup
\* (the cleanup closure of the fetch), the handle's stop(), the removal
stats_unregistered ==
    /\ f' = stats_cleanup(f)
    /\ handle' = "stopped"
    /\ active' = active \ {f.subId}

\* stopAll(): unregisters every entry and clears the paused flag
stats_stopAll ==
    /\ f.fn = "stats"
    /\ registry' = stopAllIn(called(registry, "stopAll", 0))
    /\ IF f.subId \in active
       THEN stats_unregistered
       ELSE UNCHANGED <<f, handle, active>>
    /\ UNCHANGED <<conn, queue, emitted, timers, nextTid, now, obs>>
    /\ UNCHANGED <<hook, batcher>>
    /\ UNCHANGED managedFrame

\* cleanupOld(maxAgeMs): unregisters the entries created before the cutoff
stats_cleanupOld(maxAgeMs) ==
    /\ f.fn = "stats"
    /\ registry' = cleanupOldIn(called(registry, "cleanupOld", 0), maxAgeMs)
    /\ IF f.subId \in active /\ f.createdAt < registry.now - maxAgeMs
       THEN stats_unregistered
       ELSE UNCHANGED <<f, handle, active>>
    /\ UNCHANGED <<conn, queue, emitted, timers, nextTid, now, obs>>
    /\ UNCHANGED <<hook, batcher>>
    /\ UNCHANGED managedFrame

ManagerNext ==
    \/ stats_pauseAll
    \/ resume
    \/ stats_stopAll
    \/ stats_cleanupOld(ORPHAN_MAX_AGE)
    \/ RegTick

\* the sources of a subscription deliver events and, while the subscription
\* is live, leave room for an end-signal
SourceDelivers ==
    \E s \in Signals :
        /\ s.type = "event" => (emitted.n + 1 < MaxEmit \/ emitted.eose > 0)
        /\ SourceEmit(s)
ClockNext == \E d \in {FineStep, TickStep} : Tick(d)

\* the connection settles, a live subscription gets its end-signal, the
\* event loop runs every queued handler and every due timer callback
StatsScheduling ==
    /\ WF_vars(ClockNext)
    /\ WF_vars(stats_then \/ stats_catch)
    /\ SF_vars(SourceEmit(EoseSig))
    /\ WF_vars(stats_onEvent \/ stats_onEose)
    /\ WF_vars(stats_timer)

StatsFairNext == SourceDelivers \/ ClockNext \/ StatsNext
StatsFairSpec == Init /\ [][StatsFairNext]_vars /\ StatsScheduling

ManagedNext == StatsFairNext \/ ManagerNext
ManagedFairSpec == Init /\ [][ManagedNext]_vars /\ StatsScheduling

PassedValidation == f.fn = "stats" /\ conn # "invalid"

\* C39: every stats fetch that passed validation eventually invokes
\* onComplete or has been cancelled by its caller, in every fair execution,
\* also when the subscription manager stops or removes its subscription
\* before an end-signal is delivered.
C39_StatsFetchEventuallyEnds ==
    PassedValidation ~> (obs.complete >= 1 \/ obs.cancelCalled)

\* the same while the subscription manager is left alone
C39_EndsWithoutManager ==
    (PassedValidation /\ registry.op = "none") ~>
        (obs.complete >= 1 \/ obs.cancelCalled \/ registry.op # "none")

(* ------------------- profiles reported by a profile fetch --------------- *)
RECURSIVE StrictlyIncreasing(_)
StrictlyIncreasing(sq) ==
    Len(sq) <= 1 \/ (sq[1] < sq[2] /\ StrictlyIncreasing(Tail(sq)))

Newest(ids) ==
    CHOOSE t \in {CreatedAtOf(i) : i \in ids} :
        \A i \in ids : CreatedAtOf(i) <= t

\* C40: the created_at values of the profiles fetchProfileStreaming passes
\* to onProfile from events are strictly increasing, so an older event that
\* arrives later never replaces a newer profile and the last profile
\* reported from an event is from the newest event delivered; the empty
\* placeholder profile is reported only if no profile from an event was
\* reported before.
C40_ProfilesNewestWins ==
    /\ [](f.fn = "profile" =>
            /\ StrictlyIncreasing(obs.reported)
            /\ (~f.cancelled /\ obs.reported # <<>>) =>
                   Last(obs.reported) = Newest(obs.delivered)
            /\ obs.placeholder <= 1)
    /\ [][(f.fn = "profile" /\ obs'.placeholder > obs.placeholder) =>
             obs.reported = <<>>]_vars

\* the newer of two events was reported first and the older one, delivered
\* after it by a slower source, was dropped
C40_Witness ==
    /\ f.fn = "profile" /\ ~f.cancelled
    /\ obs.reported = <<2>>
    /\ \E i \in obs.delivered : CreatedAtOf(i) = 1

====
